---- MODULE Spec2Model ----
(***************************************************************************)
(* The visual-effects subsystem of EnergyLink: the three canvas animation  *)
(* drivers (HomeFX, ParticleCanvas, EnergyGrid), their frame loop, and the *)
(* particle / ripple simulation they own.                                  *)
(*                                                                         *)
(* Units.  Wall time (performance.now, the frame timestamp) is in whole    *)
(* milliseconds.  The code accumulates `deltaTime * 0.001`; timeRef and a  *)
(* ripple's life are kept here as the integer number of thousandths, so    *)
(* `x += deltaTime * 0.001` is `x' = x + deltaTime`.  Positions are in     *)
(* hundredths of a CSS pixel (PosScale units per pixel).                   *)
(***************************************************************************)
EXTENDS Integers, Sequences, FiniteSets, TLC

\* ------------------------------------------------------------------ bounds
\* Display refreshes the loop model explores.
MaxTicks == 4

\* Display refreshes the motion model explores.
MotionTicks == 2

\* Display refreshes the particle model explores.
ParticleTicks == 2

\* The length of a long pause of the host (ms).
IdleMs == 100000

\* Display refreshes the ripple model explores around the pause.
RippleTicks == 1

\* Display refreshes the preference model explores.
PrefTicks == 1

\* Display refreshes the pointer model explores.
PointerTicks == 1

\* Live ripples up to which the motion model lets the mouse move on.
MotionRipples == 2

\* Live ripples up to which the pointer model lets the mouse move on.
PointerRipples == 1

\* Display refreshes the surface model explores.
SurfaceTicks == 2

\* ----------------------------------------------------------------- constants
Drivers == {"HomeFX", "ParticleCanvas", "EnergyGrid"}

Intensities == {"low", "md", "high"}

\* The interval between two display refreshes (ms).
FrameMs == 16

\* Units of position per CSS pixel.
PosScale == 100

\* DENSITY_MULTIPLIERS, in halves: 0.5, 1, 1.5.
DENSITY_MULTIPLIERS == [low |-> 1, md |-> 2, high |-> 3]

\* INTENSITY_MULTIPLIERS, in tenths: 0.7, 1, 1.3.
INTENSITY_MULTIPLIERS == [low |-> 7, md |-> 10, high |-> 13]

\* INTENSITY_CONFIGS[..].gridSize of EnergyGrid and HomeFX (px).
GridSize == [low |-> 60, md |-> 80, high |-> 100]

\* The area of surface per particle (px^2).
AreaPerParticle == 8000

\* The cap of the live ripple list.
MaxRipples == 5

\* ----------------------------------------------------------------- state
VARIABLES
  driver,             \* which driver this instance is
  phase,              \* "uninit" | "mounted" | "detached" | "torndown"
  props,              \* [intensity, density, interactive]
  canvasRef,          \* canvasRef.current is set
  rect,               \* canvas.getBoundingClientRect(): <<width, height>> in px
  hidden,             \* document.hidden
  ctx,                \* canvas.getContext('2d') returns a context
  mediaMatches,       \* matchMedia('(prefers-reduced-motion: reduce)').matches
  dataAttribute,      \* documentElement data-reduce-motion: "none" | "true" | "false"
  now,                \* wall clock (ms)
  rafQueue,           \* the host's pending frame callbacks
  listeners,          \* the driver's registered event listeners
  animationRef,       \* animationRef.current (0: undefined)
  lastTimeRef,        \* lastTimeRef.current
  timeRef,            \* timeRef.current, in thousandths
  isReducedMotionRef, \* isReducedMotionRef.current
  particlesRef,       \* particlesRef.current
  gridPointsRef,      \* gridPointsRef.current
  ripplesRef,         \* ripplesRef.current
  parallax,           \* useParallax state: [x, y, isReducedMotion]
  rafRef,             \* the tracker's rafRef.current (0: undefined)
  lastUpdateRef,      \* the tracker's lastUpdateRef.current
  parallaxListeners,  \* the listeners useParallax has registered
  pointer,            \* useRafPointer state: [x, y, isActive, isReducedMotion]
  isVisibleRef,       \* useRafPointer isVisibleRef.current
  pointerListeners,   \* the listeners useRafPointer has registered
  capturedFlag,       \* state.isReducedMotion as the tracker's registered callbacks hold it
  observed,           \* history: what handleVisibilityChange last saw
  pausedMs,           \* history: time spent observed-hidden since the last frame
  drawn,              \* history: what the last frame callback did
  ends,               \* history: flips at every pointer-end event
  livePhase,          \* AutoMatchStatusLive: "uninit" | "mounted" | "torndown"
  range,              \* AutoMatchStatusLive: the range prop
  isLive,             \* AutoMatchStatusLive: isLive state
  isReducedMotion,    \* AutoMatchStatusLive: isReducedMotion state
  intervalRef,        \* AutoMatchStatusLive: intervalRef.current (0: undefined)
  dataIndexRef,       \* AutoMatchStatusLive: dataIndexRef.current
  liveListeners,      \* AutoMatchStatusLive: its registered event listeners
  timers              \* the host's active interval timers (their handles)

envVars == <<hidden, mediaMatches, dataAttribute, rect, ctx>>
refVars == <<animationRef, lastTimeRef, timeRef, isReducedMotionRef>>
dataVars == <<particlesRef, gridPointsRef, ripplesRef>>
pointerVars == <<pointer, isVisibleRef, pointerListeners>>
hookVars == <<parallax, rafRef, lastUpdateRef, parallaxListeners, pointerVars,
              capturedFlag>>
histVars == <<observed, pausedMs, drawn, ends>>
liveVars == <<livePhase, range, isLive, isReducedMotion, intervalRef, dataIndexRef,
              liveListeners, timers>>
vars == <<driver, phase, props, canvasRef, now, rafQueue, listeners,
          envVars, refVars, dataVars, hookVars, histVars, liveVars>>

\* ------------------------------------------------------- host frame scheduler
\* A pending frame callback: the handle requestAnimationFrame returned, the
\* callback registered and the instant it was requested.
\* (for a pointer update also the clientX, clientY its closure holds).
PendingIds(q) == {e.id : e \in q}

\* The handle the next requestAnimationFrame returns: the host never hands out
\* a handle again, so it differs from every live one and from the one a ref
\* still holds.
RafId(q) ==
  LET used == PendingIds(q) \cup {animationRef, rafRef}
  IN  CHOOSE n \in 1..(Cardinality(used) + 1) :
        /\ n \notin used
        /\ \A m \in 1..(n - 1) : m \in used

\* A loop that goes idle under reduced motion: its callback is not registered.
requestAnimationFrame_idle(q, cb, cx, cy) ==
  IF cb = "animate" /\ isReducedMotionRef
    THEN q
    ELSE q \cup {[id |-> RafId(q), cb |-> cb, at |-> now, clientX |-> cx,
                  clientY |-> cy]}

requestAnimationFrame(q, cb, cx, cy) ==
  q \cup {[id |-> RafId(q), cb |-> cb, at |-> now, clientX |-> cx, clientY |-> cy]}

cancelAnimationFrame(q, id) == {e \in q : e.id # id}

\* A callback that stamps lastTimeRef only when it animates.
currentTime_animated == IF isReducedMotionRef THEN lastTimeRef ELSE now

\* The timestamp the host passes to a frame callback.
currentTime == now

\* ------------------------------------------------------ reduced-motion read
\* A read in which the override attribute, once set, decides alone.
checkReducedMotion_override ==
  IF dataAttribute = "none" THEN mediaMatches ELSE dataAttribute = "true"

checkReducedMotion == mediaMatches \/ dataAttribute = "true"

\* ------------------------------------------------------------ frame record
\* What the last frame callback did: when it ran, the branch it rendered (and
\* the one the frame before rendered), whether the beam pass drew, whether the
\* parallax translation was applied, how many ripples were stroked, whether
\* the pointer highlight pass ran and how many ripples the update dropped,
\* the circles drawn for the particles (the opacity read, the factor applied to
\* it in thousandths, the radius, whether with the glow) and the passes of
\* HomeFX in the order they ran.  The mode is "skipped" when the callback
\* found no drawing context and "returned" when it found no canvas.
NoFrame == [at |-> -1, mode |-> "none", prev |-> "none", beam |-> FALSE,
            translate |-> FALSE, ripples |-> 0, highlight |-> FALSE, expired |-> 0,
            circles |-> <<>>, passes |-> <<>>]

Frame(mode, beam, translate, ripples) ==
  [at |-> now, mode |-> mode, prev |-> drawn.mode, beam |-> beam,
   translate |-> translate, ripples |-> ripples, highlight |-> FALSE,
   expired |-> 0, circles |-> <<>>, passes |-> <<>>]

\* =================================================================== HomeFX
\* The three passes of render(), called when timeRef.current is time and
\* isReducedMotionRef.current is rm: each draws (the blob pass its static
\* variant under reduced motion); renderBeams returns at once under reduced
\* motion.
HomeFX_renderBlobs(time, rm) ==
  [name |-> "blob", time |-> time, reduced |-> rm, drew |-> TRUE]

HomeFX_renderGrid(time, rm) ==
  [name |-> "grid", time |-> time, reduced |-> rm, drew |-> TRUE]

\* A beam pass without the reduced-motion return.
HomeFX_renderBeams_always(time, rm) ==
  [name |-> "beam", time |-> time, reduced |-> rm, drew |-> TRUE]

HomeFX_renderBeams(time, rm) ==
  [name |-> "beam", time |-> time, reduced |-> rm, drew |-> ~rm]

\* ceil(a / b) for a >= 0, b > 0.
Ceil(a, b) == (a + b - 1) \div b

\* falloffRadius of renderGrid, px.
FalloffRadius == 200

\* gridOpacity of INTENSITY_CONFIGS of HomeFX, in thousandths.
GridOpacity == [low |-> 100, md |-> 150, high |-> 200]

\* The largest r in lo..hi with r * r <= n (lo * lo <= n < (hi + 1)^2).
RECURSIVE SqrtBetween(_, _, _)
SqrtBetween(n, lo, hi) ==
  IF lo >= hi THEN lo
  ELSE LET mid == (lo + hi + 1) \div 2
       IN  IF mid * mid <= n THEN SqrtBetween(n, mid, hi)
                             ELSE SqrtBetween(n, lo, mid - 1)

\* Math.sqrt, rounded down; n < 2^30.
Sqrt(n) == SqrtBetween(n, 0, 32767)

\* A length of position units in tenths of a pixel, rounded down.
Tenths(v) == (v * 10) \div PosScale

\* (x - mouseX) ** 2 + (y - mouseY) ** 2 of the points p and m (position
\* units), in squared tenths of a pixel.
Dist2(p, m) ==
  Tenths(p[1] - m[1]) * Tenths(p[1] - m[1]) + Tenths(p[2] - m[2]) * Tenths(p[2] - m[2])

\* The circle the pointer-interaction loop of renderGrid fills for the grid
\* point (x, y) when the pointer is drawn at (mouseX, mouseY), position
\* units: none unless influence = max(0, 1 - distance / falloffRadius) > 0;
\* alpha = gridOpacity + influence * 0.3 and size = 1 + influence * 2, in
\* thousandths like the influence.
HomeFX_highlight(x, y, mouseX, mouseY) ==
  LET d2 == Dist2(<<x, y>>, <<mouseX, mouseY>>)
      radius == FalloffRadius * 10
      influence == 1000 - (Sqrt(d2) * 1000) \div radius
  IN  [x |-> x, y |-> y, lit |-> d2 < radius * radius, influence |-> influence,
       alpha |-> GridOpacity[props.intensity] + (influence * 3) \div 10,
       size |-> 1000 + influence * 2]

\* The circles of the pointer-interaction block of renderGrid on a surface of
\* w x h px, row by row: mouseX = width / 2 + pointer.x,
\* mouseY = height / 2 + pointer.y.
HomeFX_highlights(w, h) ==
  IF ~(props.interactive /\ pointer.isActive) THEN <<>>
  ELSE LET cell == GridSize[props.intensity]
           cols == Ceil(w, cell) + 2
           rows == Ceil(h, cell) + 2
           mouseX == (w * PosScale) \div 2 + pointer.x
           mouseY == (h * PosScale) \div 2 + pointer.y
           all == [k \in 1..(rows * cols) |->
                     HomeFX_highlight(((k - 1) % cols) * cell * PosScale,
                                      ((k - 1) \div cols) * cell * PosScale,
                                      mouseX, mouseY)]
       IN  SelectSeq(all, LAMBDA c : c.lit)

\* render(): renderBlobs, renderGrid, renderBeams in this order, after
\* animate has updated timeRef.
HomeFX_render ==
  IF ~ctx THEN Frame("skipped", FALSE, FALSE, 0)
  ELSE LET passes == <<HomeFX_renderBlobs(timeRef', isReducedMotionRef),
                       HomeFX_renderGrid(timeRef', isReducedMotionRef),
                       HomeFX_renderBeams(timeRef', isReducedMotionRef)>>
       IN  [Frame(IF isReducedMotionRef THEN "static" ELSE "animated",
                  passes[3].drew, FALSE, 0)
              EXCEPT !.highlight = props.interactive /\ pointer.isActive,
                     !.circles = HomeFX_highlights(rect[1], rect[2]),
                     !.passes = passes]

HomeFX_animate(e) ==
  /\ driver = "HomeFX"
  /\ e \in rafQueue /\ e.cb = "animate" /\ e.at < now
  /\ LET q == rafQueue \ {e}
         deltaTime == currentTime - lastTimeRef
         time == IF ~isReducedMotionRef THEN timeRef + deltaTime ELSE timeRef
     IN  IF ~canvasRef
           THEN /\ rafQueue' = q
                /\ drawn' = Frame("returned", FALSE, FALSE, 0)
                /\ UNCHANGED <<refVars, observed, pausedMs, ends>>
           ELSE /\ lastTimeRef' = currentTime
                /\ timeRef' = time
                /\ drawn' = HomeFX_render
                /\ animationRef' = RafId(q)
                /\ rafQueue' = requestAnimationFrame(q, "animate", 0, 0)
                /\ pausedMs' = 0
                /\ UNCHANGED <<isReducedMotionRef, observed, ends>>
  /\ UNCHANGED <<liveVars, driver, phase, props, canvasRef, now, listeners, envVars, dataVars,
                 hookVars>>

\* A handler that cancels on hide and does nothing on show.
HomeFX_handleVisibilityChange_hideOnly(q) ==
  /\ IF hidden' /\ animationRef # 0
       THEN /\ rafQueue' = cancelAnimationFrame(q, animationRef)
            /\ animationRef' = 0
       ELSE /\ rafQueue' = q
            /\ UNCHANGED animationRef
  /\ observed' = IF hidden' THEN "hidden" ELSE "visible"

\* handleVisibilityChange on the queue q the tracker's handler, registered
\* first, has left.
HomeFX_handleVisibilityChange(q) ==
  /\ IF hidden'
       THEN IF animationRef # 0
              THEN /\ rafQueue' = cancelAnimationFrame(q, animationRef)
                   /\ animationRef' = 0
              ELSE /\ rafQueue' = q
                   /\ UNCHANGED animationRef
       ELSE IF animationRef = 0
              THEN /\ animationRef' = RafId(q)
                   /\ rafQueue' = requestAnimationFrame(q, "animate", 0, 0)
              ELSE /\ rafQueue' = q
                   /\ UNCHANGED animationRef
  /\ observed' = IF hidden' THEN "hidden" ELSE "visible"

\* The queue the effect cleanup leaves of q: the handle is cancelled, not cleared.
HomeFX_cleanup(q) ==
  IF animationRef # 0 THEN cancelAnimationFrame(q, animationRef) ELSE q

\* The effect body, run on the queue q.
HomeFX_effect(q) ==
  /\ isReducedMotionRef' = checkReducedMotion
  /\ animationRef' = RafId(q)
  /\ rafQueue' = requestAnimationFrame(q, "animate", 0, 0)
  /\ listeners' = {"visibilitychange", "resize", "change"}
  /\ UNCHANGED <<lastTimeRef, timeRef, dataVars>>

\* =========================================================== ParticleCanvas
\* A draw is one particle's worth of Math.random() results, each in
\* ten-thousandths (0..9999: Math.random() < 1).  Particle(d, w, h) is the
\* particle the loop body of initializeParticles builds from it on a surface
\* of w x h px: x = r * w, vx = (r - 0.5) * 0.5, vy = (r - 0.5) * 0.3,
\* size = r * 2 + 1, opacity = r * 0.6 + 0.4 (thousandths),
\* pulsePhase = r * 2 * PI and pulseSpeed = r * 0.02 + 0.01 (ten-thousandths
\* of a radian).  The opacity is tagged: base for the value drawn at
\* creation, otherwise the pulse value (sin(v) * 0.3 + 0.7) * 0.8 of phase v.
Particle(d, w, h) ==
  [x |-> (d.x * w * PosScale) \div 10000,
   y |-> (d.y * h * PosScale) \div 10000,
   vx |-> ((d.vx - 5000) * 5 * PosScale) \div 100000,
   vy |-> ((d.vy - 5000) * 3 * PosScale) \div 100000,
   size |-> (d.size * 2 * PosScale) \div 10000 + PosScale,
   opacity |-> [base |-> TRUE, v |-> (d.opacity * 6) \div 100 + 400],
   pulsePhase |-> (d.pulsePhase * 62832) \div 10000,
   pulseSpeed |-> (d.pulseSpeed * 2) \div 100 + 100]

\* The count with the product floored once, not the base count first.
particleCount_once(w, h, density) ==
  (w * h * DENSITY_MULTIPLIERS[density]) \div (2 * AreaPerParticle)

particleCount(w, h, density) ==
  LET baseCount == (w * h) \div AreaPerParticle
  IN  (baseCount * DENSITY_MULTIPLIERS[density]) \div 2

\* An initialization that appends the new particles to the list it finds.
initializeParticles_append(draws) ==
  IF ~canvasRef' \/ ~ctx'
    THEN particlesRef
    ELSE particlesRef \o
         [i \in 1..particleCount(rect'[1], rect'[2], props'.density) |->
            Particle(draws[i], rect'[1], rect'[2])]

\* particlesRef.current after initializeParticles() with the draws given.
initializeParticles(draws) ==
  IF ~canvasRef' \/ ~ctx'
    THEN particlesRef
    ELSE [i \in 1..particleCount(rect'[1], rect'[2], props'.density) |->
            Particle(draws[i], rect'[1], rect'[2])]

\* The update without the wrap correction.
updateParticle_free(p, w, h, m) ==
  LET ph == p.pulsePhase + (p.pulseSpeed * m) \div 10
  IN  [p EXCEPT !.x = p.x + (p.vx * m) \div 10, !.y = p.y + (p.vy * m) \div 10,
                !.pulsePhase = ph, !.opacity = [base |-> FALSE, v |-> ph]]

\* One particle after the body of the forEach of updateParticles.
updateParticle(p, w, h, m) ==
  LET x1 == p.x + (p.vx * m) \div 10
      y1 == p.y + (p.vy * m) \div 10
      x2 == IF x1 < 0 THEN w ELSE x1
      x3 == IF x2 > w THEN 0 ELSE x2
      y2 == IF y1 < 0 THEN h ELSE y1
      y3 == IF y2 > h THEN 0 ELSE y2
      ph == p.pulsePhase + (p.pulseSpeed * m) \div 10
  IN  [p EXCEPT !.x = x3, !.y = y3, !.pulsePhase = ph,
                !.opacity = [base |-> FALSE, v |-> ph]]

\* An update that ignores the reduced-motion flag.
updateParticles_always ==
  IF ~canvasRef
    THEN particlesRef
    ELSE [i \in 1..Len(particlesRef) |->
            updateParticle(particlesRef[i], rect[1] * PosScale, rect[2] * PosScale,
                           INTENSITY_MULTIPLIERS[props.intensity])]

updateParticles ==
  IF ~canvasRef \/ isReducedMotionRef
    THEN particlesRef
    ELSE [i \in 1..Len(particlesRef) |->
            updateParticle(particlesRef[i], rect[1] * PosScale, rect[2] * PosScale,
                           INTENSITY_MULTIPLIERS[props.intensity])]

\* renderParticles() on the list ps: globalAlpha = particle.opacity * 0.5 and
\* no shadow in the static branch, globalAlpha = particle.opacity and
\* shadowBlur = 4 in the animated one; arc of radius particle.size in both.
renderParticles(ps) ==
  IF ~ctx THEN Frame("skipped", FALSE, FALSE, 0)
  ELSE IF isReducedMotionRef
    THEN [Frame("static", FALSE, FALSE, 0)
            EXCEPT !.circles = [i \in 1..Len(ps) |->
                                  [opacity |-> ps[i].opacity, factor |-> 500,
                                   size |-> ps[i].size, glow |-> FALSE]]]
    ELSE [Frame("animated", FALSE, FALSE, 0)
            EXCEPT !.circles = [i \in 1..Len(ps) |->
                                  [opacity |-> ps[i].opacity, factor |-> 1000,
                                   size |-> ps[i].size, glow |-> TRUE]]]

ParticleCanvas_render == renderParticles(particlesRef')

ParticleCanvas_animate(e) ==
  /\ driver = "ParticleCanvas"
  /\ e \in rafQueue /\ e.cb = "animate" /\ e.at < now
  /\ LET q == rafQueue \ {e}
     IN  IF ~canvasRef
           THEN /\ rafQueue' = q
                /\ drawn' = Frame("returned", FALSE, FALSE, 0)
                /\ UNCHANGED <<refVars, observed, pausedMs, ends, particlesRef>>
           ELSE /\ lastTimeRef' = currentTime
                /\ particlesRef' = updateParticles
                /\ drawn' = ParticleCanvas_render
                /\ animationRef' = RafId(q)
                /\ rafQueue' = requestAnimationFrame(q, "animate", 0, 0)
                /\ pausedMs' = 0
                /\ UNCHANGED <<timeRef, isReducedMotionRef, observed, ends>>
  /\ UNCHANGED <<liveVars, driver, phase, props, canvasRef, now, listeners, envVars,
                 gridPointsRef, ripplesRef, hookVars>>

ParticleCanvas_handleVisibilityChange ==
  /\ IF hidden'
       THEN IF animationRef # 0
              THEN /\ rafQueue' = cancelAnimationFrame(rafQueue, animationRef)
                   /\ animationRef' = 0
              ELSE UNCHANGED <<rafQueue, animationRef>>
       ELSE IF animationRef = 0
              THEN /\ animationRef' = RafId(rafQueue)
                   /\ rafQueue' = requestAnimationFrame(rafQueue, "animate", 0, 0)
              ELSE UNCHANGED <<rafQueue, animationRef>>
  /\ observed' = IF hidden' THEN "hidden" ELSE "visible"

\* A cleanup that removes the listeners and leaves the frame pending.
ParticleCanvas_cleanup_keep(q) == q

ParticleCanvas_cleanup(q) ==
  IF animationRef # 0 THEN cancelAnimationFrame(q, animationRef) ELSE q

ParticleCanvas_effect(q, draws) ==
  /\ isReducedMotionRef' = checkReducedMotion
  /\ particlesRef' = initializeParticles(draws)
  /\ animationRef' = RafId(q)
  /\ rafQueue' = requestAnimationFrame(q, "animate", 0, 0)
  /\ listeners' = {"visibilitychange", "resize", "change"}
  /\ UNCHANGED <<lastTimeRef, timeRef, gridPointsRef, ripplesRef>>

\* =============================================================== EnergyGrid
\* shimmerSpeed of INTENSITY_CONFIGS, in tenths.
ShimmerSpeed == [low |-> 5, md |-> 8, high |-> 12]

\* Math.PI in hundredths of a radian.
Pi == 314

\* Math.sin of a hundredths of a radian, in thousandths: the rational
\* approximation 16 x (pi - x) / (5 pi^2 - 4 x (pi - x)) on [0, pi], odd and
\* periodic beyond.  Math.cos(a) is Math.sin(a + pi / 2).
Sin(a) ==
  LET m == a % (2 * Pi)
      x == IF m <= Pi THEN m ELSE m - Pi
      v == (16 * x * (Pi - x) * 1000) \div (5 * Pi * Pi - 4 * x * (Pi - x))
  IN  IF m <= Pi THEN v ELSE -v

Cos(a) == Sin(a + Pi \div 2)

\* The Math.random() draws of initializeGrid (ten-thousandths): the k-th
\* point of the build named by seed takes GridDraw(seed, k) for its phase
\* and GridDraw(seed, k + 1) for its intensity weight.
GridDraws == <<0, 2500, 5000, 9999>>

GridDraw(seed, k) == GridDraws[((seed + k) % Len(GridDraws)) + 1]

\* The point initializeGrid pushes for (row, col): displayed at its rest
\* position, phase = r * 2 PI (hundredths of a radian),
\* intensity = r * 0.5 + 0.5 (ten-thousandths).
GridPoint(row, col, cell, seed, k) ==
  [x |-> col * cell * PosScale, y |-> row * cell * PosScale,
   originalX |-> col * cell * PosScale, originalY |-> row * cell * PosScale,
   phase |-> (GridDraw(seed, k) * 2 * Pi) \div 10000,
   intensity |-> GridDraw(seed, k + 1) \div 2 + 5000]

\* wave1 = sin(time * shimmerSpeed + phase) * 2 and
\* wave2 = cos(time * shimmerSpeed * 0.7 + phase * 1.3) * 1.5 of updateGrid,
\* in position units; time in thousandths, speed in tenths.
wave1(time, ph, speed) ==
  (Sin((time * speed) \div 100 + ph) * 2 * PosScale) \div 1000

wave2(time, ph, speed) ==
  (Cos((time * speed * 7) \div 1000 + (ph * 13) \div 10) * 15 * PosScale)
    \div 10000

\* An update that moves the point from where it is displayed.
updateGridPoint_drift(pt, time, speed) ==
  [pt EXCEPT !.x = pt.x + wave1(time, pt.phase, speed) + wave2(time, pt.phase, speed),
             !.y = pt.y + (wave2(time, pt.phase, speed) * 5) \div 10]

\* One point after the body of the forEach of updateGrid.
updateGridPoint(pt, time, speed) ==
  [pt EXCEPT !.x = pt.originalX + wave1(time, pt.phase, speed)
                     + wave2(time, pt.phase, speed),
             !.y = pt.originalY + (wave2(time, pt.phase, speed) * 5) \div 10]

\* The lattice initializeGrid builds, row by row; at is the accumulated time
\* of the last update of its points, -1 before the first.
initializeGrid(seed) ==
  IF ~canvasRef' \/ ~ctx'
    THEN gridPointsRef
    ELSE LET cell == GridSize[props'.intensity]
             cols == Ceil(rect'[1], cell) + 2
             rows == Ceil(rect'[2], cell) + 2
         IN  [cols |-> cols, rows |-> rows, cell |-> cell, seed |-> seed,
              at |-> -1,
              points |-> [k \in 1..(rows * cols) |->
                            GridPoint((k - 1) \div cols, (k - 1) % cols,
                                      cell, seed, k)]]

\* A ripple after dt more milliseconds (radius and opacity are functions of
\* life and maxRadius, both in thousandths here).
ageRipple(r, dt) == [r EXCEPT !.life = r.life + dt]

rippleRadius(r) == r.life

\* opacity = (1 - life / maxRadius) * 0.6, in thousandths.
rippleOpacity(r) == ((r.maxRadius - r.life) * 600) \div r.maxRadius

\* A filter that keeps a ripple until its life exceeds maxRadius.
filterRipples_inclusive(rs, dt) ==
  SelectSeq([i \in 1..Len(rs) |-> ageRipple(rs[i], dt)],
            LAMBDA r : r.life <= r.maxRadius)

\* ripplesRef.current after the filter of updateGrid.
filterRipples(rs, dt) ==
  SelectSeq([i \in 1..Len(rs) |-> ageRipple(rs[i], dt)],
            LAMBDA r : r.life < r.maxRadius)

\* The handler without the shift of the oldest ripple.
EnergyGrid_handleMouseMove_push(cx, cy, r) ==
  IF ~props.interactive \/ isReducedMotionRef \/ ~canvasRef
    THEN ripplesRef
    ELSE Append(ripplesRef, [x |-> cx * PosScale - parallax.x,
                             y |-> cy * PosScale - parallax.y,
                             life |-> 0,
                             maxRadius |-> 100000 + r * 500,
                             born |-> now])

\* A handler that, on a full list, overwrites the oldest ripple's slot with
\* the new ripple.
EnergyGrid_handleMouseMove_overwrite(cx, cy, r) ==
  IF ~props.interactive \/ isReducedMotionRef \/ ~canvasRef
    THEN ripplesRef
    ELSE LET new == [x |-> cx * PosScale - parallax.x,
                     y |-> cy * PosScale - parallax.y,
                     life |-> 0,
                     maxRadius |-> 100000 + r * 500,
                     born |-> now]
         IN  IF Len(ripplesRef) + 1 > MaxRipples
               THEN [ripplesRef EXCEPT ![1] = new]
               ELSE Append(ripplesRef, new)

\* ripplesRef.current after handleMouseMove for a mousemove at (cx, cy) px,
\* r being the Math.random() draw (hundredths) of maxRadius = 100 + r * 50.
\* born is history: the wall time of the event.
EnergyGrid_handleMouseMove(cx, cy, r) ==
  IF ~props.interactive \/ isReducedMotionRef \/ ~canvasRef
    THEN ripplesRef
    ELSE LET pushed == Append(ripplesRef,
                              [x |-> cx * PosScale - parallax.x,
                               y |-> cy * PosScale - parallax.y,
                               life |-> 0,
                               maxRadius |-> 100000 + r * 500,
                               born |-> now])
         IN  IF Len(pushed) > MaxRipples THEN Tail(pushed) ELSE pushed

\* A render without the static branch.
EnergyGrid_render_live(rs) == Frame("animated", FALSE, TRUE, Len(rs))

\* renderGrid() with the ripple list rs: the animated branch strokes one
\* circle per ripple of the list, the static branch none.
EnergyGrid_render(rs) ==
  IF ~ctx THEN Frame("skipped", FALSE, FALSE, 0)
  ELSE IF isReducedMotionRef
    THEN Frame("static", FALSE, FALSE, 0)
    ELSE Frame("animated", FALSE, TRUE, Len(rs))

EnergyGrid_animate(e) ==
  /\ driver = "EnergyGrid"
  /\ e \in rafQueue /\ e.cb = "animate" /\ e.at < now
  /\ LET q == rafQueue \ {e}
         deltaTime == currentTime - lastTimeRef
         time == IF isReducedMotionRef THEN timeRef ELSE timeRef + deltaTime
         rs == IF isReducedMotionRef THEN ripplesRef
                                     ELSE filterRipples(ripplesRef, deltaTime)
     IN  IF ~canvasRef
           THEN /\ rafQueue' = q
                /\ drawn' = Frame("returned", FALSE, FALSE, 0)
                /\ UNCHANGED <<refVars, observed, pausedMs, ends, gridPointsRef,
                               ripplesRef>>
           ELSE /\ lastTimeRef' = currentTime
                /\ timeRef' = time
                /\ gridPointsRef' =
                     IF isReducedMotionRef THEN gridPointsRef
                     ELSE [gridPointsRef EXCEPT
                             !.at = time,
                             !.points = [k \in 1..Len(@) |->
                                           updateGridPoint(@[k], time,
                                             ShimmerSpeed[props.intensity])]]
                /\ ripplesRef' = rs
                /\ drawn' = [EnergyGrid_render(rs)
                               EXCEPT !.expired = Len(ripplesRef) - Len(rs)]
                /\ animationRef' = RafId(q)
                /\ rafQueue' = requestAnimationFrame(q, "animate", 0, 0)
                /\ pausedMs' = 0
                /\ UNCHANGED <<isReducedMotionRef, observed, ends>>
  /\ UNCHANGED <<liveVars, driver, phase, props, canvasRef, now, listeners, envVars,
                 particlesRef, hookVars>>

EnergyGrid_handleVisibilityChange ==
  /\ IF hidden'
       THEN IF animationRef # 0
              THEN /\ rafQueue' = cancelAnimationFrame(rafQueue, animationRef)
                   /\ animationRef' = 0
              ELSE UNCHANGED <<rafQueue, animationRef>>
       ELSE IF animationRef = 0
              THEN /\ animationRef' = RafId(rafQueue)
                   /\ rafQueue' = requestAnimationFrame(rafQueue, "animate", 0, 0)
              ELSE UNCHANGED <<rafQueue, animationRef>>
  /\ observed' = IF hidden' THEN "hidden" ELSE "visible"

\* A cleanup that leaves the pending frame callback in the queue.
EnergyGrid_cleanup_keep(q) == q

EnergyGrid_cleanup(q) ==
  IF animationRef # 0 THEN cancelAnimationFrame(q, animationRef) ELSE q

EnergyGrid_effect(q, seed) ==
  /\ isReducedMotionRef' = checkReducedMotion
  /\ gridPointsRef' = initializeGrid(seed)
  /\ animationRef' = RafId(q)
  /\ rafQueue' = requestAnimationFrame(q, "animate", 0, 0)
  /\ listeners' = (IF props'.interactive THEN {"mousemove"} ELSE {})
                    \cup {"visibilitychange", "change"}
  /\ UNCHANGED <<lastTimeRef, timeRef, particlesRef, ripplesRef>>

\* ============================================================== useParallax
\* A tracker that is always given the interactive intensity.
ParallaxIntensity_on(p) == 2

\* The options EnergyGrid passes: intensity (tenths) and maxOffset (px).
ParallaxIntensity(p) == IF p.interactive THEN 2 ELSE 0

ParallaxMaxOffset == 8

\* throttleMs.
ThrottleMs == 16

\* Date.now() counts from 1970, not from the page's time origin.
Epoch == 1000

DateNow == Epoch + now

Max(a, b) == IF a > b THEN a ELSE b

Min(a, b) == IF a < b THEN a ELSE b

\* newX (newY) of the frame callback for client coordinate c on a viewport of
\* the given size: (c - center) / center * intensity * maxOffset, clamped.
useParallax_offset(c, size, p) ==
  LET raw == ((2 * c - size) * ParallaxIntensity(p) * ParallaxMaxOffset * PosScale)
               \div (size * 10)
      lim == ParallaxMaxOffset * PosScale
  IN  Max(-lim, Min(lim, raw))

useParallax_updatePosition(cx, cy) ==
  IF capturedFlag \/ DateNow - lastUpdateRef < ThrottleMs
    THEN UNCHANGED <<rafQueue, rafRef, lastUpdateRef>>
    ELSE LET q == IF rafRef # 0 THEN cancelAnimationFrame(rafQueue, rafRef)
                  ELSE rafQueue
         IN  /\ lastUpdateRef' = DateNow
             /\ rafRef' = RafId(q)
             /\ rafQueue' = requestAnimationFrame(q, "pointer", cx, cy)

\* A pointer end that leaves the offset where it is.
useParallax_resetPosition_keep == parallax

\* The state resetPosition sets.
useParallax_resetPosition == [parallax EXCEPT !.x = 0, !.y = 0]

PointerEvents == {"mousemove", "touchmove", "mouseleave", "touchend"}

\* The listeners the two effects of useParallax leave registered when the
\* hook's reduced-motion state is rm.
useParallax_listeners(rm) == IF rm THEN {"change"} ELSE {"change"} \cup PointerEvents

\* A cleanup of the listener effect that cancels nothing.
useParallax_cleanup_leak(q) == q

\* The queue the cleanup of the listener effect leaves of q; the effect
\* registered a cleanup only if it ran with reduced motion off.
useParallax_cleanup(q) ==
  IF "mousemove" \in parallaxListeners /\ rafRef # 0
    THEN cancelAnimationFrame(q, rafRef)
    ELSE q

\* The listeners of useParallax left after the cleanups of its two effects:
\* the preference effect removes change, the listener effect the four pointer
\* listeners if it had registered them.
useParallax_unlisten ==
  (parallaxListeners \ {"change"})
    \ (IF "mousemove" \in parallaxListeners THEN PointerEvents ELSE {})

\* ============================================================ useRafPointer
\* The maxOffset HomeFX passes (px); its intensity is ParallaxIntensity too.
RafPointerMaxOffset == 16

\* newX (newY) of the frame callback without the clamp.
useRafPointer_offset_raw(c, size, p) ==
  ((2 * c - size) * ParallaxIntensity(p) * RafPointerMaxOffset * PosScale)
    \div (size * 10)

\* newX (newY) of the frame callback for client coordinate c on a viewport of
\* the given size.
useRafPointer_offset(c, size, p) ==
  LET raw == ((2 * c - size) * ParallaxIntensity(p) * RafPointerMaxOffset * PosScale)
               \div (size * 10)
      lim == RafPointerMaxOffset * PosScale
  IN  Max(-lim, Min(lim, raw))

\* An updatePosition without the throttle.
useRafPointer_updatePosition_eager(cx, cy) ==
  IF capturedFlag \/ ~isVisibleRef
    THEN UNCHANGED <<rafQueue, rafRef, lastUpdateRef>>
    ELSE LET q == IF rafRef # 0 THEN cancelAnimationFrame(rafQueue, rafRef)
                  ELSE rafQueue
         IN  /\ lastUpdateRef' = DateNow
             /\ rafRef' = RafId(q)
             /\ rafQueue' = requestAnimationFrame(q, "pointer", cx, cy)

useRafPointer_updatePosition(cx, cy) ==
  IF capturedFlag \/ ~isVisibleRef \/ DateNow - lastUpdateRef < ThrottleMs
    THEN UNCHANGED <<rafQueue, rafRef, lastUpdateRef>>
    ELSE LET q == IF rafRef # 0 THEN cancelAnimationFrame(rafQueue, rafRef)
                  ELSE rafQueue
         IN  /\ lastUpdateRef' = DateNow
             /\ rafRef' = RafId(q)
             /\ rafQueue' = requestAnimationFrame(q, "pointer", cx, cy)

\* A pointer leave that also recentres the offset.
useRafPointer_handlePointerLeave_reset ==
  [pointer EXCEPT !.isActive = FALSE, !.x = 0, !.y = 0]

\* The state handlePointerLeave sets.
useRafPointer_handlePointerLeave == [pointer EXCEPT !.isActive = FALSE]

\* The listeners the effect of useRafPointer registers.
useRafPointer_listeners == {"pointermove", "pointerleave", "visibilitychange", "change"}

\* The queue the cleanup of the effect leaves of q.
useRafPointer_cleanup(q) ==
  IF pointerListeners # {} /\ rafRef # 0
    THEN cancelAnimationFrame(q, rafRef)
    ELSE q

\* The listeners of useRafPointer left after the cleanup of its effect.
useRafPointer_unlisten ==
  pointerListeners \ {"pointermove", "pointerleave", "visibilitychange", "change"}

\* The queue handleVisibilityChange of useRafPointer leaves of q.
useRafPointer_handleVisibilityChange(q) ==
  IF "visibilitychange" \in pointerListeners /\ hidden' /\ rafRef # 0
    THEN cancelAnimationFrame(q, rafRef)
    ELSE q

\* ============================================================ the component
HasParallax == driver = "EnergyGrid"

HasPointer == driver = "HomeFX"

\* The queue the cleanup of the driver's tracker leaves of q.
tracker_cleanup(q) ==
  IF HasPointer THEN useRafPointer_cleanup(q) ELSE useParallax_cleanup(q)

\* What a driver's props may be.
PropsOf(d) ==
  IF d = "ParticleCanvas"
    THEN [intensity : Intensities, density : Intensities, interactive : {FALSE}]
    ELSE [intensity : Intensities, density : {"md"}, interactive : BOOLEAN]

\* The draws initializeParticles needs for the surface and props of the next
\* state, each taken from D (the other drivers draw nothing there).
DrawsFor(D) ==
  IF driver = "ParticleCanvas"
    THEN [1..particleCount(rect'[1], rect'[2], props'.density) -> D]
    ELSE {<<>>}

cleanup(q) ==
  IF driver = "HomeFX" THEN HomeFX_cleanup(q)
  ELSE IF driver = "ParticleCanvas" THEN ParticleCanvas_cleanup(q)
  ELSE EnergyGrid_cleanup(q)

effect(q, draws, seed) ==
  IF driver = "HomeFX" THEN HomeFX_effect(q)
  ELSE IF driver = "ParticleCanvas" THEN ParticleCanvas_effect(q, draws)
  ELSE EnergyGrid_effect(q, seed)

\* The driver's effect is cleaned up and run again on the queue q.
rerun(q, D, seed) == \E draws \in DrawsFor(D) : effect(cleanup(q), draws, seed)

\* The component is mounted: React sets the canvas ref and runs the effects,
\* the hook's before the driver's.  The hook's effects run with the initial
\* state (isReducedMotion false) in their callbacks and set the state to the
\* preference they read.
Mount(D, seed) ==
  /\ phase = "uninit"
  /\ phase' = "mounted"
  /\ canvasRef' = TRUE
  /\ IF HasParallax
       THEN /\ parallax' = [parallax EXCEPT !.isReducedMotion = checkReducedMotion]
            /\ parallaxListeners' = useParallax_listeners(parallax.isReducedMotion)
       ELSE UNCHANGED <<parallax, parallaxListeners>>
  /\ IF HasPointer
       THEN /\ pointer' = [pointer EXCEPT !.isReducedMotion = checkReducedMotion]
            /\ pointerListeners' = useRafPointer_listeners
       ELSE UNCHANGED <<pointer, pointerListeners>>
  /\ capturedFlag' = FALSE
  /\ UNCHANGED <<liveVars, driver, props, now, envVars, histVars, rafRef, lastUpdateRef,
                 isVisibleRef>>
  /\ \E draws \in DrawsFor(D) : effect(rafQueue, draws, seed)

\* The commit of the unmount detaches the canvas ref; the effect cleanups run
\* later.
Detach ==
  /\ phase = "mounted"
  /\ phase' = "detached"
  /\ canvasRef' = FALSE
  /\ UNCHANGED <<liveVars, driver, props, now, rafQueue, listeners, envVars, refVars, dataVars,
                 hookVars, histVars>>

\* The component is unmounted: the effect cleanups run and the ref is cleared.
Unmount ==
  /\ phase \in {"mounted", "detached"}
  /\ phase' = "torndown"
  /\ rafQueue' = cleanup(tracker_cleanup(rafQueue))
  /\ listeners' = {}
  /\ parallaxListeners' = useParallax_unlisten
  /\ pointerListeners' = useRafPointer_unlisten
  /\ canvasRef' = FALSE
  /\ UNCHANGED <<liveVars, driver, props, now, envVars, refVars, dataVars, histVars,
                 parallax, rafRef, lastUpdateRef, pointer, isVisibleRef, capturedFlag>>

\* The parent renders the driver with other props: every callback of the
\* driver is rebuilt (each depends on a prop), so its effect is cleaned up and
\* run again; the hook's listener effect too when its intensity option changed
\* (the effect of useRafPointer reads the preference again).
SetProps(np, D, seed) ==
  /\ phase = "mounted"
  /\ np \in PropsOf(driver) /\ np # props
  /\ props' = np
  /\ pointer' = IF HasPointer /\ np.interactive # props.interactive
                  THEN [pointer EXCEPT !.isReducedMotion = checkReducedMotion]
                  ELSE pointer
  /\ capturedFlag' = IF np.interactive = props.interactive THEN capturedFlag
                     ELSE IF HasPointer THEN pointer.isReducedMotion
                     ELSE IF HasParallax THEN parallax.isReducedMotion
                     ELSE capturedFlag
  /\ parallaxListeners' = IF HasParallax /\ np.interactive # props.interactive
                            THEN useParallax_listeners(parallax.isReducedMotion)
                            ELSE parallaxListeners
  /\ UNCHANGED <<liveVars, driver, phase, canvasRef, now, envVars, histVars, parallax, rafRef,
                 lastUpdateRef, isVisibleRef, pointerListeners>>
  /\ rerun(IF np.interactive # props.interactive THEN tracker_cleanup(rafQueue)
           ELSE rafQueue, D, seed)

\* ========================================================= the environment
\* The document's visibility flips and visibilitychange is dispatched: to
\* handleVisibilityChange of useRafPointer, then to the driver's.
VisibilityChange ==
  /\ hidden' = ~hidden
  /\ IF "visibilitychange" \in pointerListeners
       THEN /\ isVisibleRef' = ~hidden'
            /\ rafRef' = IF hidden' THEN 0 ELSE rafRef
       ELSE UNCHANGED <<isVisibleRef, rafRef>>
  /\ IF "visibilitychange" \in listeners
       THEN IF driver = "HomeFX"
              THEN HomeFX_handleVisibilityChange(
                     useRafPointer_handleVisibilityChange(rafQueue))
            ELSE IF driver = "ParticleCanvas" THEN ParticleCanvas_handleVisibilityChange
            ELSE EnergyGrid_handleVisibilityChange
       ELSE UNCHANGED <<rafQueue, animationRef, observed>>
  /\ UNCHANGED <<liveVars, driver, phase, props, canvasRef, now, listeners, mediaMatches,
                 dataAttribute, rect, ctx, lastTimeRef, timeRef, isReducedMotionRef,
                 dataVars, parallax, lastUpdateRef, parallaxListeners, pointer,
                 pointerListeners, capturedFlag, pausedMs, drawn, ends>>

\* A change handler that keeps the stored flag.
handleReducedMotionChange_stale == isReducedMotionRef

\* handleReducedMotionChange of the three effects.
handleReducedMotionChange == mediaMatches' \/ dataAttribute' = "true"

\* The system preference flips and the media query's change event is
\* dispatched: to the handler of the tracker, which sets the tracker's state
\* (its listener effect runs again later, see tracker_effect), and to the
\* driver's handleReducedMotionChange.
ReducedMotionChange ==
  /\ mediaMatches' = ~mediaMatches
  /\ UNCHANGED dataAttribute
  /\ IF "change" \in parallaxListeners
       THEN /\ parallax' = [parallax EXCEPT !.isReducedMotion =
                                               mediaMatches' \/ dataAttribute' = "true"]
            /\ UNCHANGED pointer
       ELSE IF "change" \in pointerListeners
         THEN /\ pointer' = [pointer EXCEPT !.isReducedMotion =
                                              mediaMatches' \/ dataAttribute' = "true"]
              /\ UNCHANGED parallax
         ELSE UNCHANGED <<parallax, pointer>>
  /\ isReducedMotionRef' = IF "change" \in listeners THEN handleReducedMotionChange
                           ELSE isReducedMotionRef
  /\ UNCHANGED <<liveVars, driver, phase, props, canvasRef, now, rafQueue, listeners, hidden,
                 rect, ctx, animationRef, lastTimeRef, timeRef, dataVars, histVars,
                 rafRef, lastUpdateRef, parallaxListeners, isVisibleRef,
                 pointerListeners, capturedFlag>>

\* React runs the tracker's listener effect again after a render in which
\* state.isReducedMotion differs from the value the registered callbacks hold:
\* the cleanup cancels the pending update, the body registers the listeners
\* anew (useParallax: none for the pointer under reduced motion) and, in
\* useRafPointer, reads the preference into the state again.
tracker_effect ==
  /\ phase = "mounted"
  /\ \/ HasParallax /\ capturedFlag # parallax.isReducedMotion
     \/ HasPointer /\ capturedFlag # pointer.isReducedMotion
  /\ rafQueue' = tracker_cleanup(rafQueue)
  /\ IF HasParallax
       THEN /\ capturedFlag' = parallax.isReducedMotion
            /\ parallaxListeners' = useParallax_listeners(parallax.isReducedMotion)
            /\ UNCHANGED pointer
       ELSE /\ capturedFlag' = pointer.isReducedMotion
            /\ pointer' = [pointer EXCEPT !.isReducedMotion = checkReducedMotion]
            /\ UNCHANGED parallaxListeners
  /\ UNCHANGED <<liveVars, driver, phase, props, canvasRef, now, listeners, envVars, refVars,
                 dataVars, histVars, parallax, rafRef, lastUpdateRef, isVisibleRef,
                 pointerListeners>>

\* Something sets the document's data-reduce-motion attribute: nobody listens.
SetDataAttribute(v) ==
  /\ v # dataAttribute
  /\ dataAttribute' = v
  /\ UNCHANGED <<liveVars, driver, phase, props, canvasRef, now, rafQueue, listeners, hidden,
                 mediaMatches, rect, ctx, refVars, dataVars, hookVars, histVars>>

\* getContext('2d') starts or stops returning a context.
ContextChange ==
  /\ ctx' = ~ctx
  /\ UNCHANGED <<liveVars, driver, phase, props, canvasRef, now, rafQueue, listeners, hidden,
                 mediaMatches, dataAttribute, rect, refVars, dataVars, hookVars,
                 histVars>>

\* The window is resized to sz.  HomeFX: initializeCanvas; ParticleCanvas:
\* handleResize; EnergyGrid registers no resize listener.
Resize(sz, D) ==
  /\ sz # rect
  /\ rect' = sz
  /\ UNCHANGED <<liveVars, driver, phase, props, canvasRef, now, rafQueue, listeners, hidden,
                 mediaMatches, dataAttribute, ctx, refVars, gridPointsRef, ripplesRef,
                 hookVars, histVars>>
  /\ IF "resize" \in listeners /\ driver = "ParticleCanvas"
       THEN \E draws \in DrawsFor(D) : particlesRef' = initializeParticles(draws)
       ELSE UNCHANGED particlesRef

\* The mouse moves to (cx, cy): window's pointermove and mousemove are
\* dispatched to the tracker's handler and to handleMouseMove of EnergyGrid;
\* r is the Math.random() draw of the ripple.
MouseMove(cx, cy, r) ==
  /\ "mousemove" \in listeners \cup parallaxListeners \/ "pointermove" \in pointerListeners
  /\ IF "mousemove" \in parallaxListeners
       THEN useParallax_updatePosition(cx, cy)
       ELSE IF "pointermove" \in pointerListeners
         THEN useRafPointer_updatePosition(cx, cy)
         ELSE UNCHANGED <<rafQueue, rafRef, lastUpdateRef>>
  /\ ripplesRef' = IF "mousemove" \in listeners
                     THEN EnergyGrid_handleMouseMove(cx, cy, r)
                     ELSE ripplesRef
  /\ UNCHANGED <<liveVars, driver, phase, props, canvasRef, now, listeners, envVars, refVars,
                 particlesRef, gridPointsRef, parallax, parallaxListeners, pointerVars,
                 capturedFlag, histVars>>

\* The mouse leaves the window of a mounted tracker.  useParallax:
\* resetPosition, if registered; a changed offset rebuilds renderGrid and
\* handleMouseMove, so the driver's effect runs again.  useRafPointer:
\* handlePointerLeave; a changed isActive rebuilds renderGrid of HomeFX, so
\* the driver's effect runs again.
MouseLeave(seed) ==
  /\ phase = "mounted"
  /\ HasParallax \/ HasPointer
  /\ ends' = 1 - ends
  /\ parallax' = IF "mouseleave" \in parallaxListeners
                   THEN useParallax_resetPosition
                   ELSE parallax
  /\ pointer' = IF "pointerleave" \in pointerListeners
                  THEN useRafPointer_handlePointerLeave
                  ELSE pointer
  /\ UNCHANGED <<liveVars, driver, phase, props, canvasRef, now, envVars, observed, pausedMs,
                 drawn, rafRef, lastUpdateRef, parallaxListeners, isVisibleRef,
                 pointerListeners, capturedFlag>>
  /\ IF parallax' # parallax \/ pointer' # pointer
       THEN rerun(rafQueue, {}, seed)
       ELSE UNCHANGED <<rafQueue, listeners, refVars, dataVars>>

\* The host runs a pending pointer update of useParallax: setState of the new
\* offset; a changed offset makes the driver's effect run again.
useParallax_frame(e, seed) ==
  /\ HasParallax
  /\ e \in rafQueue /\ e.cb = "pointer" /\ e.at < now
  /\ UNCHANGED <<liveVars, driver, phase, props, canvasRef, now, envVars, histVars,
                 rafRef, lastUpdateRef, parallaxListeners, pointerVars, capturedFlag>>
  /\ LET newX == useParallax_offset(e.clientX, rect[1], props)
         newY == useParallax_offset(e.clientY, rect[2], props)
         q == rafQueue \ {e}
     IN  /\ parallax' = [parallax EXCEPT !.x = newX, !.y = newY]
         /\ IF phase = "mounted" /\ <<parallax.x, parallax.y>> # <<newX, newY>>
              THEN rerun(q, {}, seed)
              ELSE /\ rafQueue' = q
                   /\ UNCHANGED <<listeners, refVars, dataVars>>

\* The host runs a pending pointer update of useRafPointer: setState of the
\* new offset and isActive; a change of any makes the effect of HomeFX run
\* again.
useRafPointer_frame(e, seed) ==
  /\ HasPointer
  /\ e \in rafQueue /\ e.cb = "pointer" /\ e.at < now
  /\ UNCHANGED <<liveVars, driver, phase, props, canvasRef, now, envVars, histVars,
                 rafRef, lastUpdateRef, parallax, parallaxListeners, isVisibleRef,
                 pointerListeners, capturedFlag>>
  /\ LET newX == useRafPointer_offset(e.clientX, rect[1], props)
         newY == useRafPointer_offset(e.clientY, rect[2], props)
         q == rafQueue \ {e}
     IN  /\ pointer' = [pointer EXCEPT !.x = newX, !.y = newY, !.isActive = TRUE]
         /\ IF phase = "mounted" /\ pointer' # pointer
              THEN rerun(q, {}, seed)
              ELSE /\ rafQueue' = q
                   /\ UNCHANGED <<listeners, refVars, dataVars>>

\* The host runs a pending pointer update of the driver's tracker.
PointerFrame(seed) ==
  \E e \in rafQueue :
    \/ useParallax_frame(e, seed)
    \/ useRafPointer_frame(e, seed)

\* Time passes until the next display refresh.
Tick(maxTicks) ==
  /\ now < maxTicks * FrameMs
  /\ now' = now + FrameMs
  /\ pausedMs' = IF phase = "mounted" /\ observed = "hidden" THEN pausedMs + FrameMs
                 ELSE pausedMs
  /\ UNCHANGED <<liveVars, driver, phase, props, canvasRef, rafQueue, listeners, envVars,
                 refVars, dataVars, hookVars, observed, drawn, ends>>

\* A long time passes in which the host runs no callback.
Idle ==
  /\ now < IdleMs
  /\ now' = now + IdleMs
  /\ pausedMs' = IF phase = "mounted" /\ observed = "hidden" THEN pausedMs + IdleMs
                 ELSE pausedMs
  /\ UNCHANGED <<liveVars, driver, phase, props, canvasRef, rafQueue, listeners, envVars,
                 refVars, dataVars, hookVars, observed, drawn, ends>>

\* The host runs a pending frame callback of the driver.
RunFrame ==
  \E e \in rafQueue :
    \/ HomeFX_animate(e)
    \/ ParticleCanvas_animate(e)
    \/ EnergyGrid_animate(e)

\* ====================================================== AutoMatchStatusLive
\* The component's timer state: intervalRef.current, the isLive state and the
\* host's active interval timers.
LiveState == [intervalRef |-> intervalRef, isLive |-> isLive, timers |-> timers]

Ranges == {"24h", "7d", "30d"}

\* maxPoints of RANGE_CONFIGS.
MaxPoints == [r \in Ranges |-> IF r = "24h" THEN 120 ELSE IF r = "7d" THEN 168 ELSE 240]

\* The number of points generateInitialData creates.
InitialPoints == 20

\* The handle setInterval returns: one no active timer has and intervalRef
\* does not hold.
TimerId(st) ==
  LET used == st.timers \cup {st.intervalRef}
  IN  CHOOSE n \in 1..(Cardinality(used) + 1) :
        /\ n \notin used
        /\ \A m \in 1..(n - 1) : m \in used

\* startLiveUpdates as created by a render in which isReducedMotion was
\* captured: returns at once if it was set, else sets isLive and stores the
\* handle of a new interval timer in intervalRef.
startLiveUpdates(st, captured) ==
  IF captured THEN st
  ELSE LET id == TimerId(st)
       IN  [isLive |-> TRUE, intervalRef |-> id, timers |-> st.timers \cup {id}]

\* stopLiveUpdates: clears isLive and the timer intervalRef holds.
stopLiveUpdates(st) ==
  IF st.intervalRef # 0
    THEN [isLive |-> FALSE, intervalRef |-> 0, timers |-> st.timers \ {st.intervalRef}]
    ELSE [st EXCEPT !.isLive = FALSE]

\* The body of the mount effect of a render that captured isReducedMotion as
\* captured, the preference read being reduced (which it stores in the state).
mountEffect(st, captured, reduced) ==
  IF ~reduced THEN startLiveUpdates(st, captured) ELSE st

\* The state after the re-render a change of isReducedMotion from captured
\* to reduced causes: startLiveUpdates is a new function, so the mount effect
\* is cleaned up and runs again.
rerender(st, captured, reduced) ==
  IF reduced = captured THEN st
  ELSE mountEffect(stopLiveUpdates(st), reduced, reduced)

\* The component keeps the driver's state as it is.
fxVars == <<driver, phase, props, canvasRef, now, rafQueue, listeners, rect, ctx,
            refVars, dataVars, hookVars, histVars>>

SetLiveState(st) ==
  /\ intervalRef' = st.intervalRef
  /\ isLive' = st.isLive
  /\ timers' = st.timers

\* The component mounts: the first render has isReducedMotion = false; the
\* three effects run, and the state the mount effect set renders again.
AutoMatchStatusLive_Mount ==
  /\ livePhase = "uninit"
  /\ livePhase' = "mounted"
  /\ isReducedMotion' = checkReducedMotion
  /\ dataIndexRef' = InitialPoints
  /\ SetLiveState(rerender(mountEffect(LiveState, isReducedMotion, checkReducedMotion),
                           isReducedMotion, checkReducedMotion))
  /\ liveListeners' = {"visibilitychange", "change"}
  /\ UNCHANGED <<fxVars, hidden, mediaMatches, dataAttribute, range>>

\* The component unmounts: the cleanups of the three effects run.
AutoMatchStatusLive_Unmount ==
  /\ livePhase = "mounted"
  /\ livePhase' = "torndown"
  /\ SetLiveState(stopLiveUpdates(LiveState))
  /\ liveListeners' = {}
  /\ UNCHANGED <<fxVars, hidden, mediaMatches, dataAttribute, range, isReducedMotion,
                 dataIndexRef>>

\* The parent passes another range: config changes, with it startLiveUpdates,
\* and the mount effect is cleaned up and runs again.
AutoMatchStatusLive_SetRange(r) ==
  /\ livePhase = "mounted"
  /\ r # range
  /\ range' = r
  /\ isReducedMotion' = checkReducedMotion
  /\ dataIndexRef' = InitialPoints
  /\ SetLiveState(rerender(mountEffect(stopLiveUpdates(LiveState), isReducedMotion,
                                       checkReducedMotion),
                           isReducedMotion, checkReducedMotion))
  /\ UNCHANGED <<fxVars, hidden, mediaMatches, dataAttribute, livePhase, liveListeners>>

\* The document's visibility flips; handleVisibilityChange, if registered.
AutoMatchStatusLive_handleVisibilityChange ==
  /\ hidden' = ~hidden
  /\ IF "visibilitychange" \in liveListeners
       THEN SetLiveState(IF hidden' THEN stopLiveUpdates(LiveState)
                         ELSE IF ~isReducedMotion
                           THEN startLiveUpdates(LiveState, isReducedMotion)
                           ELSE LiveState)
       ELSE UNCHANGED <<intervalRef, isLive, timers>>
  /\ UNCHANGED <<fxVars, mediaMatches, dataAttribute, livePhase, range, isReducedMotion,
                 dataIndexRef, liveListeners>>

\* The system preference flips; handleChange, if registered, and the
\* re-render its setIsReducedMotion causes.
AutoMatchStatusLive_handleChange ==
  /\ mediaMatches' = ~mediaMatches
  /\ UNCHANGED dataAttribute
  /\ IF "change" \in liveListeners
       THEN LET reduced == handleReducedMotionChange
                st == IF reduced THEN stopLiveUpdates(LiveState)
                      ELSE startLiveUpdates(LiveState, isReducedMotion)
            IN  /\ isReducedMotion' = reduced
                /\ SetLiveState(rerender(st, isReducedMotion, reduced))
       ELSE UNCHANGED <<isReducedMotion, intervalRef, isLive, timers>>
  /\ UNCHANGED <<fxVars, hidden, livePhase, range, dataIndexRef, liveListeners>>

\* The page sets or removes the data-reduce-motion attribute; no event.
AutoMatchStatusLive_SetDataAttribute(v) ==
  /\ v # dataAttribute
  /\ dataAttribute' = v
  /\ UNCHANGED <<fxVars, hidden, mediaMatches, liveVars>>

\* An interval timer fires: addDataPoint as the timer's closure holds it, of
\* a render with isReducedMotion = false (no other render starts a timer).
AutoMatchStatusLive_addDataPoint ==
  /\ timers # {}
  /\ dataIndexRef < MaxPoints[range]
  /\ dataIndexRef' = dataIndexRef + 1
  /\ UNCHANGED <<fxVars, hidden, mediaMatches, dataAttribute, livePhase, range, isLive,
                 isReducedMotion, intervalRef, liveListeners, timers>>

\* ------------------------------------------------------------ the loop model
LoopDraws == {[x |-> 5000, y |-> 5000, vx |-> 9000, vy |-> 1000, size |-> 5000,
               opacity |-> 5000, pulsePhase |-> 0, pulseSpeed |-> 5000]}

LoopSeeds == {1}

LoopProps == {p \in PropsOf(driver) : p.intensity \in {"md", "high"} /\ p.density = "md"
                                              /\ p.interactive = props.interactive}

InitWith(PS) ==
  /\ driver \in Drivers
  /\ phase = "uninit"
  /\ props \in PS[driver]
  /\ canvasRef = FALSE
  /\ rect = <<100, 80>>
  /\ ctx = TRUE
  /\ hidden = FALSE
  /\ mediaMatches = FALSE
  /\ dataAttribute = "none"
  /\ now = 0
  /\ rafQueue = {}
  /\ listeners = {}
  /\ animationRef = 0
  /\ lastTimeRef = 0
  /\ timeRef = 0
  /\ isReducedMotionRef = FALSE
  /\ particlesRef = <<>>
  /\ gridPointsRef = [cols |-> 0, rows |-> 0, cell |-> 0, seed |-> 0, at |-> -1,
                      points |-> <<>>]
  /\ ripplesRef = <<>>
  /\ parallax = [x |-> 0, y |-> 0, isReducedMotion |-> FALSE]
  /\ rafRef = 0
  /\ lastUpdateRef = 0
  /\ parallaxListeners = {}
  /\ pointer = [x |-> 0, y |-> 0, isActive |-> FALSE, isReducedMotion |-> FALSE]
  /\ isVisibleRef = TRUE
  /\ pointerListeners = {}
  /\ capturedFlag = FALSE
  /\ observed = "none"
  /\ pausedMs = 0
  /\ drawn = NoFrame
  /\ ends = 0
  /\ livePhase = "uninit"
  /\ range = "24h"
  /\ isLive = TRUE
  /\ isReducedMotion = FALSE
  /\ intervalRef = 0
  /\ dataIndexRef = 0
  /\ liveListeners = {}
  /\ timers = {}

LoopInitProps ==
  [d \in Drivers |-> {[intensity |-> "md", density |-> "md",
                       interactive |-> (d # "ParticleCanvas")]}]

Init == InitWith(LoopInitProps)

Next ==
  \/ \E seed \in LoopSeeds : Mount(LoopDraws, seed)
  \/ Unmount
  \/ \E np \in LoopProps, seed \in LoopSeeds : SetProps(np, LoopDraws, seed)
  \/ VisibilityChange
  \/ ReducedMotionChange
  \/ tracker_effect
  \/ Tick(MaxTicks)
  \/ RunFrame

Spec == Init /\ [][Next]_vars

\* --------------------------------------------------------- the motion model
\* The three drivers under preference changes and, for an interactive
\* EnergyGrid, mouse moves.
MotionPositions == {<<100, 80>>}

MotionDraws == {0}

NextMotion ==
  \/ \E seed \in LoopSeeds : Mount(LoopDraws, seed)
  \/ \E c \in MotionPositions, r \in MotionDraws :
       Len(ripplesRef) < MotionRipples /\ MouseMove(c[1], c[2], r)
  \/ \E seed \in LoopSeeds : PointerFrame(seed)
  \/ RunFrame
  \/ ReducedMotionChange
  \/ tracker_effect
  \/ Tick(MotionTicks)

SpecMotion == Init /\ [][NextMotion]_vars

\* ------------------------------------------------------- the particle model
\* A ParticleCanvas of every density and intensity on surfaces of 0 to 3
\* base particles, its particles drawn at the surface's edges.
ParticleSizes == {<<80, 60>>, <<100, 80>>, <<120, 100>>, <<200, 120>>}

ParticleDraws ==
  {[x |-> 0, y |-> 9999, vx |-> 1000, vy |-> 9999, size |-> 0,
    opacity |-> 0, pulsePhase |-> 0, pulseSpeed |-> 0],
   [x |-> 9999, y |-> 0, vx |-> 9000, vy |-> 0, size |-> 9999,
    opacity |-> 9999, pulsePhase |-> 9999, pulseSpeed |-> 9999]}

ParticleInitProps ==
  [d \in Drivers |-> [intensity : Intensities, density : Intensities,
                      interactive : {FALSE}]]

InitParticles ==
  /\ InitWith(ParticleInitProps)
  /\ driver = "ParticleCanvas"

NextParticles ==
  \/ Mount(ParticleDraws, 1)
  \/ \E sz \in ParticleSizes : Resize(sz, ParticleDraws)
  \/ ReducedMotionChange
  \/ \E e \in rafQueue : ParticleCanvas_animate(e)
  \/ Tick(ParticleTicks)

SpecParticles == InitParticles /\ [][NextParticles]_vars

\* --------------------------------------------------------- the ripple model
\* An interactive EnergyGrid whose host pauses once for a long time; the mouse
\* moves over the centre of the viewport, where the parallax offset is zero.
RipplePositions == {<<50, 40>>}

RippleDraws == {0, 50}

InitRipple ==
  /\ InitWith(LoopInitProps)
  /\ driver = "EnergyGrid"

NextRipple ==
  \/ \E seed \in LoopSeeds : Mount(LoopDraws, seed)
  \/ \E c \in RipplePositions, r \in RippleDraws : MouseMove(c[1], c[2], r)
  \/ \E seed \in LoopSeeds : PointerFrame(seed)
  \/ RunFrame
  \/ Tick(RippleTicks)
  \/ Idle

SpecRipple == InitRipple /\ [][NextRipple]_vars

\* ----------------------------------------------------- the preference model
\* The three drivers while the system preference and the override attribute
\* change, before and after the mount.
OverrideValues == {"none", "true", "false"}

NextPrefs ==
  \/ \E seed \in LoopSeeds : Mount(LoopDraws, seed)
  \/ \E np \in LoopProps, seed \in LoopSeeds : SetProps(np, LoopDraws, seed)
  \/ \E v \in OverrideValues : SetDataAttribute(v)
  \/ ReducedMotionChange
  \/ tracker_effect
  \/ Unmount
  \/ Tick(PrefTicks)
  \/ RunFrame

SpecPrefs == Init /\ [][NextPrefs]_vars

\* -------------------------------------------------------- the pointer model
\* HomeFX and EnergyGrid, interactive or not, with their trackers: the mouse
\* moves far outside the viewport (a captured pointer), where both clamps
\* engage, and leaves, while the document's visibility and the system
\* preference change.
PointerPositions == {<<700, -500>>}

PointerInitProps ==
  [d \in Drivers |-> {[intensity |-> "md", density |-> "md", interactive |-> i] :
                        i \in BOOLEAN}]

InitPointer ==
  /\ InitWith(PointerInitProps)
  /\ driver \in {"HomeFX", "EnergyGrid"}

NextPointer ==
  \/ \E seed \in LoopSeeds : Mount(LoopDraws, seed)
  \/ \E c \in PointerPositions, r \in MotionDraws :
       Len(ripplesRef) < PointerRipples /\ MouseMove(c[1], c[2], r)
  \/ \E seed \in LoopSeeds : MouseLeave(seed)
  \/ \E seed \in LoopSeeds : PointerFrame(seed)
  \/ RunFrame
  \/ VisibilityChange
  \/ ReducedMotionChange
  \/ tracker_effect
  \/ Tick(PointerTicks)

SpecPointer == InitPointer /\ [][NextPointer]_vars

\* -------------------------------------------------------- the surface model
\* The three drivers while getContext('2d') stops and starts returning a
\* context and while the component is unmounted: the commit detaches the
\* canvas ref, the effect cleanups run afterwards.
NextSurface ==
  \/ \E seed \in LoopSeeds : Mount(LoopDraws, seed)
  \/ Detach
  \/ Unmount
  \/ ContextChange
  \/ \E np \in LoopProps, seed \in LoopSeeds : SetProps(np, LoopDraws, seed)
  \/ Tick(SurfaceTicks)
  \/ RunFrame

SpecSurface == Init /\ [][NextSurface]_vars

\* ----------------------------------------------------------- the grid model
\* An interactive EnergyGrid whose window is resized while the mouse moves
\* between the centre of the viewport and a point off it.
GridTicks == 2

GridSizes == {<<100, 80>>, <<200, 80>>, <<100, 200>>}

GridPositions == {<<50, 40>>, <<100, 80>>}

NextGrid ==
  \/ \E seed \in LoopSeeds : Mount(LoopDraws, seed)
  \/ \E sz \in GridSizes : Resize(sz, LoopDraws)
  \/ \E c \in GridPositions, r \in MotionDraws :
       Len(ripplesRef) < MotionRipples /\ MouseMove(c[1], c[2], r)
  \/ \E seed \in LoopSeeds : PointerFrame(seed)
  \/ RunFrame
  \/ Tick(GridTicks)

SpecGrid == InitRipple /\ [][NextGrid]_vars

\* ------------------------------------------------------ the highlight model
\* An interactive HomeFX on a surface much wider than the falloff radius;
\* the mouse moves near the surface's top left corner and leaves.
HighlightTicks == 2

HighlightSizes == {<<400, 300>>}

HighlightPositions == {<<100, 100>>}

InitHighlight ==
  /\ InitWith(LoopInitProps)
  /\ driver = "HomeFX"

NextHighlight ==
  \/ \E seed \in LoopSeeds : Mount(LoopDraws, seed)
  \/ \E sz \in HighlightSizes : Resize(sz, LoopDraws)
  \/ \E c \in HighlightPositions, r \in MotionDraws : MouseMove(c[1], c[2], r)
  \/ \E seed \in LoopSeeds : MouseLeave(seed)
  \/ \E seed \in LoopSeeds : PointerFrame(seed)
  \/ RunFrame
  \/ Tick(HighlightTicks)

SpecHighlight == InitHighlight /\ [][NextHighlight]_vars

\* ------------------------------------------------------- the teardown model
\* HomeFX and EnergyGrid, interactive or not, unmounted at any moment while
\* the mouse moves and the document's visibility and the system preference
\* change.
TeardownTicks == 1

NextTeardown ==
  \/ \E seed \in LoopSeeds : Mount(LoopDraws, seed)
  \/ \E c \in PointerPositions, r \in MotionDraws :
       Len(ripplesRef) < PointerRipples /\ MouseMove(c[1], c[2], r)
  \/ \E seed \in LoopSeeds : PointerFrame(seed)
  \/ VisibilityChange
  \/ ReducedMotionChange
  \/ tracker_effect
  \/ Unmount
  \/ Tick(TeardownTicks)

SpecTeardown == InitPointer /\ [][NextTeardown]_vars

\* ------------------------------------------------------ the scheduling model
\* The three drivers through every event that schedules or cancels a frame
\* callback: mount, frames, visibility and preference changes, and the effect
\* re-runs caused by new props and, for EnergyGrid, by a new pointer offset.
ScheduleTicks == 1

NextSchedule ==
  \/ \E seed \in LoopSeeds : Mount(LoopDraws, seed)
  \/ \E np \in LoopProps, seed \in LoopSeeds : SetProps(np, LoopDraws, seed)
  \/ \E c \in PointerPositions, r \in MotionDraws :
       ripplesRef = <<>> /\ MouseMove(c[1], c[2], r)
  \/ \E seed \in LoopSeeds : MouseLeave(seed)
  \/ \E seed \in LoopSeeds : PointerFrame(seed)
  \/ RunFrame
  \/ VisibilityChange
  \/ ReducedMotionChange
  \/ tracker_effect
  \/ Tick(ScheduleTicks)

SpecSchedule == Init /\ [][NextSchedule]_vars

\* --------------------------------------------------------- the lattice model
\* An interactive EnergyGrid whose mouse moves and leaves; every build of the
\* lattice takes its random draws from one of two sequences.
LatticeTicks == 1

LatticeSeeds == {1, 2}

NextLattice ==
  \/ \E seed \in LatticeSeeds : Mount(LoopDraws, seed)
  \/ \E c \in GridPositions, r \in MotionDraws :
       Len(ripplesRef) < MotionRipples /\ MouseMove(c[1], c[2], r)
  \/ \E seed \in LatticeSeeds : MouseLeave(seed)
  \/ \E seed \in LatticeSeeds : PointerFrame(seed)
  \/ RunFrame
  \/ Tick(LatticeTicks)

SpecLattice == InitRipple /\ [][NextLattice]_vars

\* ----------------------------------------------------------- the clock model
\* HomeFX and EnergyGrid mounted some time after the page's time origin; the
\* mouse moves over the grid, the preference changes, frames run.  No event
\* here runs the driver's effect again, so until the first frame callback
\* runs the pending one is the one the mount scheduled, at the time of the
\* mount.
ClockTicks == 3

InitClock ==
  /\ InitWith(LoopInitProps)
  /\ driver \in {"HomeFX", "EnergyGrid"}

NextClock ==
  \/ \E seed \in LoopSeeds : Mount(LoopDraws, seed)
  \/ \E c \in MotionPositions, r \in MotionDraws :
       Len(ripplesRef) < MotionRipples /\ MouseMove(c[1], c[2], r)
  \/ RunFrame
  \/ ReducedMotionChange
  \/ Tick(ClockTicks)

SpecClock == InitClock /\ [][NextClock]_vars

\* ----------------------------------------------------------- the leave model
\* HomeFX and EnergyGrid, interactive or not, reduced motion off: the mouse
\* moves and then leaves the window for good, so that after the pointer end
\* no further move is delivered; frames and pointer updates run, the
\* document's visibility changes.
LeaveTicks == 2

NextLeave ==
  \/ \E seed \in LoopSeeds : Mount(LoopDraws, seed)
  \/ \E c \in PointerPositions, r \in MotionDraws :
       ends = 0 /\ Len(ripplesRef) < PointerRipples /\ MouseMove(c[1], c[2], r)
  \/ \E seed \in LoopSeeds : ends = 0 /\ MouseLeave(seed)
  \/ \E seed \in LoopSeeds : PointerFrame(seed)
  \/ RunFrame
  \/ VisibilityChange
  \/ Tick(LeaveTicks)

SpecLeave == InitPointer /\ [][NextLeave]_vars

\* ------------------------------------------------------------ the live model
\* AutoMatchStatusLive mounted with the document visible or hidden and the
\* preference set or not, under visibility, preference, attribute and range
\* changes, while its timers fire.  LiveTimers bounds the timers the host
\* keeps, LivePoints the points the timers add.
LiveTimers == 3

LivePoints == 2

LiveRanges == {"24h", "7d"}

InitLive ==
  /\ InitWith(LoopInitProps)
  /\ driver = "HomeFX"

NextLive ==
  \/ AutoMatchStatusLive_Mount
  \/ AutoMatchStatusLive_Unmount
  \/ \E r \in LiveRanges :
       Cardinality(timers) < LiveTimers /\ AutoMatchStatusLive_SetRange(r)
  \/ Cardinality(timers) < LiveTimers /\ AutoMatchStatusLive_handleVisibilityChange
  \/ Cardinality(timers) < LiveTimers /\ AutoMatchStatusLive_handleChange
  \/ \E v \in OverrideValues : AutoMatchStatusLive_SetDataAttribute(v)
  \/ dataIndexRef < InitialPoints + LivePoints /\ AutoMatchStatusLive_addDataPoint

SpecLive == InitLive /\ [][NextLive]_vars

\* ================================================================ properties
\* An animate callback of the driver is pending.
FramePending == \E e \in rafQueue : e.cb = "animate"

\* The step is a frame callback of the driver running to its end.
FrameStep == drawn' # drawn

HasTime == driver \in {"HomeFX", "EnergyGrid"}

\* C1: once the visibilitychange handler of a mounted driver has observed the
\* document hidden, and for as long as it stays hidden, no frame callback of
\* the driver is pending, whatever else has happened meanwhile.
C1_NoFrameWhileHidden ==
  (phase = "mounted" /\ hidden /\ observed = "hidden") => ~FramePending

\* C2: the first frame after the handler has seen the document visible again
\* adds to timeRef at most the time since the frame before it less the time
\* the loop spent paused in between.
C2_ResumeSkipsHiddenInterval ==
  [][(FrameStep /\ HasTime /\ drawn.at >= 0 /\ observed = "visible" /\ pausedMs > 0)
       => timeRef' - timeRef <= (now - lastTimeRef) - pausedMs]_vars

\* C3: whenever the driver is mounted and its visibility handler has last
\* observed the document visible, a frame callback of the driver is pending.
C3_VisibleHasFrame ==
  (phase = "mounted" /\ observed = "visible") => FramePending

\* The loop was paused for a while, the document is visible again and the
\* frame the handler scheduled has not run yet.
C3_Witness ==
  /\ phase = "mounted" /\ observed = "visible" /\ ~hidden
  /\ pausedMs > 0 /\ FramePending

\* C4: after the unmount no frame callback of the driver is pending, no
\* listener of the driver is registered, and no frame callback runs.
C4_TornDownIsQuiet ==
  /\ [](phase = "torndown" => (~FramePending /\ listeners = {}))
  /\ [][phase = "torndown" => ~FrameStep]_vars

\* Unmounted while hidden, after frames have run and after an effect re-run
\* left a handle in animationRef.
C4_Witness ==
  /\ phase = "torndown" /\ observed = "hidden" /\ hidden
  /\ animationRef # 0 /\ drawn.at >= 0

\* C5: a frame that runs while the reduced-motion flag is set leaves timeRef,
\* the particles, the lattice and the ripples as they were and renders the
\* static branch: no beam, no parallax translation, no ripple.
C5_ReducedFrameIsStatic ==
  [][(FrameStep /\ isReducedMotionRef)
       => /\ timeRef' = timeRef
          /\ dataVars' = dataVars
          /\ drawn'.mode = "static"
          /\ ~drawn'.beam /\ ~drawn'.translate /\ drawn'.ripples = 0]_vars

\* An EnergyGrid that has accumulated time and holds a live ripple has just
\* rendered its first static frame after an animated one.
C5_Witness ==
  /\ driver = "EnergyGrid" /\ isReducedMotionRef
  /\ drawn.mode = "static" /\ drawn.prev = "animated" /\ drawn.at = now
  /\ timeRef > 0 /\ Len(ripplesRef) > 0

\* C6: the first animated frame after a static one advances timeRef by the
\* time since that static frame ran, and by nothing else.
C6_NoCatchUp ==
  [][(FrameStep /\ HasTime /\ drawn.mode = "static" /\ ~isReducedMotionRef)
       => timeRef' - timeRef = now - drawn.at]_vars

\* Time was accumulated, frozen for a static frame, and advanced again.
C6_Witness ==
  /\ HasTime /\ drawn.mode = "animated" /\ drawn.prev = "static"
  /\ drawn.at = now /\ timeRef > 0 /\ timeRef < now

\* C7: a frame callback that runs under reduced motion registers the next one,
\* and the frame after a static one is animated as soon as the flag is clear.
C7_ReducedLoopKeepsRunning ==
  [][FrameStep
       => /\ isReducedMotionRef
              => \E e \in rafQueue' : /\ e.cb = "animate" /\ e.at = now
                                      /\ e.id = animationRef'
          /\ (drawn.mode = "static" /\ ~isReducedMotionRef)
              => drawn'.mode = "animated"]_vars

\* The frame right after a static one rendered the animated branch, the
\* document being visible throughout and the next frame pending.
C7_Witness ==
  /\ phase = "mounted" /\ ~hidden /\ observed = "none"
  /\ drawn.mode = "animated" /\ drawn.prev = "static" /\ FramePending

\* C8 as stated: every particle lies in the half-open surface,
\* 0 <= x < w and 0 <= y < h.
C8_HalfOpen ==
  \A i \in 1..Len(particlesRef) :
    /\ 0 <= particlesRef[i].x /\ particlesRef[i].x < rect[1] * PosScale
    /\ 0 <= particlesRef[i].y /\ particlesRef[i].y < rect[2] * PosScale

\* C8: every particle lies on the closed surface, 0 <= x <= w and
\* 0 <= y <= h, after any number of updates.
C8_Closed ==
  \A i \in 1..Len(particlesRef) :
    /\ 0 <= particlesRef[i].x /\ particlesRef[i].x <= rect[1] * PosScale
    /\ 0 <= particlesRef[i].y /\ particlesRef[i].y <= rect[2] * PosScale

\* An update has wrapped a particle that left through the left edge.
C8_Witness ==
  \E i \in 1..Len(particlesRef) :
    /\ ~particlesRef[i].opacity.base
    /\ particlesRef[i].vx < 0
    /\ particlesRef[i].x = rect[1] * PosScale

\* A surface of w * h px holds b base particles: b = floor(w * h / 8000).
BaseCount(b) ==
  /\ AreaPerParticle * b <= rect[1] * rect[2]
  /\ rect[1] * rect[2] < AreaPerParticle * (b + 1)

\* C9 as stated: the particle count is floor(w * h / 8000) times the density
\* multiplier (in halves on both sides).
C9_Product ==
  phase = "mounted"
    => \E b \in 0..(rect[1] * rect[2]) :
         /\ BaseCount(b)
         /\ 2 * Len(particlesRef) = b * DENSITY_MULTIPLIERS[props.density]

\* C9: the particle count is the floor of floor(w * h / 8000) times the
\* density multiplier, whatever the intensity, the draws and the history.
C9_FlooredProduct ==
  phase = "mounted"
    => \E b \in 0..(rect[1] * rect[2]) :
         /\ BaseCount(b)
         /\ 2 * Len(particlesRef) <= b * DENSITY_MULTIPLIERS[props.density]
         /\ b * DENSITY_MULTIPLIERS[props.density] < 2 * (Len(particlesRef) + 1)

\* One base particle at density high: 1.5 floors to one particle.
C9_Witness ==
  /\ phase = "mounted" /\ rect = <<120, 100>> /\ props.density = "high"
  /\ Len(particlesRef) = 1

\* C10: the ripple list never holds more than 5 ripples.
C10_RippleCap == Len(ripplesRef) <= MaxRipples

\* A frame has aged and stroked a full list.
C10_Witness ==
  /\ Len(ripplesRef) = MaxRipples /\ drawn.ripples = MaxRipples
  /\ \A i \in 1..Len(ripplesRef) : ripplesRef[i].life > 0

\* The ripple r is still in the list rs.
Survives(rs, r) ==
  \E j \in 1..Len(rs) : rs[j].born = r.born /\ rs[j].maxRadius = r.maxRadius

\* C11: a frame at wall time t' keeps a ripple created at wall time t (ms)
\* with maxRadius m when t' < t + m and drops it when t' >= t + m.
C11_WallClockLifetime ==
  [][(FrameStep /\ driver = "EnergyGrid" /\ drawn'.mode = "animated")
       => \A i \in 1..Len(ripplesRef) :
            ((now - ripplesRef[i].born) * 1000 < ripplesRef[i].maxRadius)
              <=> Survives(ripplesRef', ripplesRef[i])]_vars

\* What updateGrid does instead: a ripple stays while its accumulated life,
\* the frame deltas of the animated frames since its creation, one unit of
\* life per second, is below its
\* maxRadius: an animated frame keeps, in order, exactly the ripples whose
\* life with this frame's delta is below maxRadius; a frame under reduced
\* motion keeps them all; any other step leaves the list alone, appends a
\* new ripple or, the list being full, drops the oldest for the new one.
RippleLifetime_Accumulated ==
  /\ [](\A i \in 1..Len(ripplesRef) : ripplesRef[i].life < ripplesRef[i].maxRadius)
  /\ [][IF FrameStep /\ drawn'.mode \in {"animated", "skipped"} /\ ~isReducedMotionRef
          THEN LET dt == now - lastTimeRef
                   keep == {i \in 1..Len(ripplesRef) :
                              ripplesRef[i].life + dt < ripplesRef[i].maxRadius}
               IN  /\ Len(ripplesRef') = Cardinality(keep)
                   /\ \A i \in keep :
                        \E j \in 1..Len(ripplesRef') :
                          /\ ripplesRef'[j] = [ripplesRef[i] EXCEPT !.life = @ + dt]
                          /\ j <= i
        ELSE IF FrameStep
          THEN ripplesRef' = ripplesRef
        ELSE \/ ripplesRef' = ripplesRef
             \/ /\ Len(ripplesRef') = Len(ripplesRef) + 1
                /\ SubSeq(ripplesRef', 1, Len(ripplesRef)) = ripplesRef
             \/ /\ Len(ripplesRef) = MaxRipples /\ Len(ripplesRef') = MaxRipples
                /\ SubSeq(ripplesRef', 1, MaxRipples - 1) = Tail(ripplesRef)]_vars

\* One frame has dropped a ripple whose life reached its maxRadius and kept
\* another, created no later, whose maxRadius is larger.
RippleLifetime_Witness ==
  /\ drawn.at = now /\ drawn.expired > 0
  /\ \E i \in 1..Len(ripplesRef) :
       /\ ripplesRef[i].life >= 100000
       /\ ripplesRef[i].born < IdleMs

\* The step mounts the component.
MountStep == phase = "uninit" /\ phase' = "mounted"

\* The step dispatches the media query's change event to a mounted component.
PreferenceChangeStep == phase = "mounted" /\ mediaMatches' # mediaMatches

\* C12: every read of the preference, by a driver (at mount, at an effect
\* re-run, at a change event) and by a tracker (at mount, at a change event),
\* stores true exactly when the media query matches or the override attribute
\* is "true"; no other override value makes a matching preference false.
C12_ReadIsMediaOrOverride ==
  [][/\ (MountStep \/ PreferenceChangeStep \/ (phase = "mounted" /\ props' # props))
          => (isReducedMotionRef' <=> (mediaMatches' \/ dataAttribute' = "true"))
     /\ ((MountStep \/ PreferenceChangeStep) /\ HasParallax)
          => (parallax'.isReducedMotion <=> (mediaMatches' \/ dataAttribute' = "true"))
     /\ ((MountStep \/ PreferenceChangeStep) /\ HasPointer)
          => (pointer'.isReducedMotion <=> (mediaMatches' \/ dataAttribute' = "true"))
    ]_vars

\* A component mounted while the preference matched and the override was
\* "false": its flags are true.
C12_Witness ==
  /\ phase = "mounted" /\ now = 0 /\ drawn = NoFrame
  /\ mediaMatches /\ dataAttribute = "false"
  /\ isReducedMotionRef
  /\ HasParallax => parallax.isReducedMotion
  /\ HasPointer => pointer.isReducedMotion

\* The parts of C13 that concern every driver: a change event refreshes the
\* stored flag to the preference or the override as they are then, and a
\* change of the override attribute alone leaves the flag as it is.
RefreshOnChangeOnly ==
  /\ PreferenceChangeStep
       => (isReducedMotionRef' <=> (mediaMatches' \/ dataAttribute' = "true"))
  /\ dataAttribute' # dataAttribute => isReducedMotionRef' = isReducedMotionRef

\* C13: the flag is refreshed on every change event and not by the override
\* attribute; the flag of ParticleCanvas changes only at mount and at a
\* change event.
C13_ChangesAtMountOrEvent ==
  [][/\ RefreshOnChangeOnly
     /\ (driver = "ParticleCanvas" /\ isReducedMotionRef' # isReducedMotionRef)
          => (MountStep \/ PreferenceChangeStep)]_vars

\* C13: the flag is refreshed on every change event and not by the override
\* attribute; the flag of ParticleCanvas changes only at mount, at a change
\* event and when a change of its props runs its effect again.
C13_ChangesAtEffectOrEvent ==
  [][/\ RefreshOnChangeOnly
     /\ (driver = "ParticleCanvas" /\ isReducedMotionRef' # isReducedMotionRef)
          => (MountStep \/ PreferenceChangeStep
                \/ (phase = "mounted" /\ props' # props))]_vars

\* A mounted ParticleCanvas whose flag is false although the override is
\* "true": the attribute was set after the last read.
C13_Witness ==
  /\ driver = "ParticleCanvas" /\ phase = "mounted"
  /\ dataAttribute = "true" /\ ~isReducedMotionRef
  /\ drawn.mode = "animated"

Abs(a) == IF a < 0 THEN -a ELSE a

\* A pointer update of the tracker is pending.
PointerPending == \E e \in rafQueue : e.cb = "pointer"

\* The step dispatches a pointer-end event (mouseleave, pointerleave).
PointerEndStep == ends' # ends

\* C14: the x and y either tracker exposes lie within [-maxOffset, maxOffset],
\* wherever the pointer is.
C14_OffsetWithinMax ==
  /\ HasPointer => /\ Abs(pointer.x) <= RafPointerMaxOffset * PosScale
                   /\ Abs(pointer.y) <= RafPointerMaxOffset * PosScale
  /\ HasParallax => /\ Abs(parallax.x) <= ParallaxMaxOffset * PosScale
                    /\ Abs(parallax.y) <= ParallaxMaxOffset * PosScale

\* A pointer far right of and above the viewport has put the offset of
\* useRafPointer on both limits.
C14_Witness ==
  /\ HasPointer
  /\ pointer.x = RafPointerMaxOffset * PosScale
  /\ pointer.y = -(RafPointerMaxOffset * PosScale)

\* C15: a pointer-leave delivered to useRafPointer sets isActive to false and
\* leaves x, y and isReducedMotion as they were.
C15_LeaveKeepsOffset ==
  [][(PointerEndStep /\ "pointerleave" \in pointerListeners)
       => /\ ~pointer'.isActive
          /\ pointer'.x = pointer.x /\ pointer'.y = pointer.y
          /\ pointer'.isReducedMotion = pointer.isReducedMotion]_vars

\* After a pointer-leave the tracker is inactive with its offset kept.
C15_Witness ==
  /\ HasPointer /\ ends = 1
  /\ ~pointer.isActive /\ pointer.x # 0 /\ pointer.y # 0

\* C16: a pointer end resets x, y of useParallax to (0, 0) and leaves
\* isReducedMotion unchanged whenever the tracker is mounted, reduced motion
\* or not.
C16_EndResetsWhenMounted ==
  [][(PointerEndStep /\ HasParallax /\ phase = "mounted")
       => /\ parallax'.x = 0 /\ parallax'.y = 0
          /\ parallax'.isReducedMotion = parallax.isReducedMotion]_vars

\* C16: a pointer end resets x, y of a mounted useParallax to (0, 0) and
\* leaves isReducedMotion unchanged if reduced motion was off when the
\* listener effect last ran; if it was on, no pointer-end listener is
\* registered and the state stays as it is.
C16_EndResetsUnlessReduced ==
  [][(PointerEndStep /\ HasParallax /\ phase = "mounted")
       => IF capturedFlag
            THEN parallax' = parallax
            ELSE /\ parallax'.x = 0 /\ parallax'.y = 0
                 /\ parallax'.isReducedMotion = parallax.isReducedMotion]_vars

\* A pointer end has come and the offset of useParallax, under reduced
\* motion, is not (0, 0).
C16_Witness ==
  /\ HasParallax /\ phase = "mounted" /\ ends = 1
  /\ parallax.isReducedMotion /\ parallax.x # 0 /\ parallax.y # 0

\* C17: while a tracker's reduced-motion flag is true its x and y do not
\* change, whatever was scheduled before the flag became true.
C17_FrozenUnderReducedMotion ==
  [][/\ (HasPointer /\ pointer.isReducedMotion)
          => (pointer'.x = pointer.x /\ pointer'.y = pointer.y)
     /\ (HasParallax /\ parallax.isReducedMotion)
          => (parallax'.x = parallax.x /\ parallax'.y = parallax.y)]_vars

\* C18: while the document is hidden no pointer update of a mounted tracker
\* is pending.
C18_NoPointerUpdateWhileHidden ==
  (phase = "mounted" /\ hidden /\ (HasPointer \/ HasParallax)) => ~PointerPending

C20_SkippedFrameReschedules ==
  [][(FrameStep /\ (~canvasRef \/ ~ctx))
       => /\ drawn'.mode \in {"skipped", "returned"}
          /\ FramePending']_vars

\* The part of C20 the drivers do keep: with the canvas attached, a frame that
\* gets no drawing context draws nothing and schedules the next frame.
NoContextFrameReschedules ==
  [][(FrameStep /\ canvasRef /\ ~ctx) => (drawn'.mode = "skipped" /\ FramePending')]_vars

\* Rendering has resumed after a frame skipped for want of a context.
NoContextFrame_Witness ==
  /\ phase = "mounted" /\ ctx
  /\ drawn.prev = "skipped" /\ drawn.mode = "animated"

\* ---------------------------------------------------------------------- C21
\* The window's resize event.
ResizeStep == rect' # rect

\* C21: every resize of the window of a mounted EnergyGrid rebuilds the
\* lattice, so that right after it the lattice has ceil(h / cell) + 2 rows and
\* ceil(w / cell) + 2 columns for the new surface size w x h.
C21_ResizeRebuildsLattice ==
  [][ResizeStep /\ driver = "EnergyGrid" /\ phase = "mounted" /\ canvasRef
       => /\ gridPointsRef'.cols = Ceil(rect'[1], GridSize[props.intensity]) + 2
          /\ gridPointsRef'.rows = Ceil(rect'[2], GridSize[props.intensity]) + 2]_vars

\* The lattice of a mounted EnergyGrid has the dimensions of the surface it
\* was last built on: the build of the effect is the only one.
LatticeBuiltByEffect ==
  [][driver = "EnergyGrid" /\ gridPointsRef' # gridPointsRef /\ ~FrameStep
       => /\ ~ResizeStep
          /\ gridPointsRef'.cols = Ceil(rect[1], GridSize[props'.intensity]) + 2
          /\ gridPointsRef'.rows = Ceil(rect[2], GridSize[props'.intensity]) + 2]_vars

\* ---------------------------------------------------------------------- C22
\* C22: every resize of the window of a mounted ParticleCanvas replaces the
\* particle list: right after it the list has exactly the particles counted
\* for the new surface size, each one freshly created on the new surface,
\* whatever the list held before.
C22_ResizeReplacesParticles ==
  [][ResizeStep /\ driver = "ParticleCanvas" /\ phase = "mounted"
       => /\ Len(particlesRef') = particleCount(rect'[1], rect'[2], props.density)
          /\ \A i \in 1..Len(particlesRef') :
               \E d \in ParticleDraws :
                 particlesRef'[i] = Particle(d, rect'[1], rect'[2])]_vars

\* Particles that frames have moved were replaced by a resize to a surface
\* of another count, and no frame has run since.
C22_Witness ==
  /\ driver = "ParticleCanvas" /\ phase = "mounted"
  /\ drawn.mode = "animated"
  /\ rect # <<100, 80>>
  /\ Len(particlesRef) = 3
  /\ \A i \in 1..Len(particlesRef) : particlesRef[i].opacity.base

\* ---------------------------------------------------------------------- C23
\* C23: no frame of a ParticleCanvas changes a particle's radius or base
\* opacity, and a static (reduced-motion) frame draws every particle with the
\* opacity it was created with times 0.5, also after animated frames.
C23_StaticDrawsBaseOpacity ==
  [][FrameStep /\ driver = "ParticleCanvas" /\ canvasRef
       => /\ Len(particlesRef') = Len(particlesRef)
          /\ \A i \in 1..Len(particlesRef) :
               particlesRef'[i].size = particlesRef[i].size
          /\ drawn'.mode = "static"
               => \A i \in 1..Len(drawn'.circles) :
                    /\ drawn'.circles[i].opacity.base
                    /\ drawn'.circles[i].factor = 500]_vars

\* What holds of the radius and of the static frame: the radius is the one
\* of the creation, the opacity drawn is half of the one the particle holds.
ParticleRadiusFixed ==
  [][FrameStep /\ driver = "ParticleCanvas" /\ canvasRef
       => /\ Len(particlesRef') = Len(particlesRef)
          /\ \A i \in 1..Len(particlesRef) :
               particlesRef'[i].size = particlesRef[i].size
          /\ drawn'.mode = "static"
               => /\ particlesRef' = particlesRef
                  /\ \A i \in 1..Len(drawn'.circles) :
                       /\ drawn'.circles[i].opacity = particlesRef[i].opacity
                       /\ drawn'.circles[i].size = particlesRef[i].size
                       /\ drawn'.circles[i].factor = 500]_vars

\* ---------------------------------------------------------------------- C24
\* C24: a frame of a ParticleCanvas that runs while the reduced-motion flag
\* is set leaves every particle as it was: position, pulse phase and opacity
\* (and so does any number of such frames).
C24_ReducedFrameKeepsParticles ==
  [][FrameStep /\ driver = "ParticleCanvas" /\ isReducedMotionRef
       => particlesRef' = particlesRef]_vars

\* Two static frames in a row over a list with a moving particle.
C24_Witness ==
  /\ driver = "ParticleCanvas" /\ phase = "mounted" /\ isReducedMotionRef
  /\ drawn.mode = "static" /\ drawn.prev = "static"
  /\ \E i \in 1..Len(particlesRef) :
       particlesRef[i].vx # 0 /\ particlesRef[i].pulseSpeed # 0

\* ---------------------------------------------------------------------- C25
\* What identifies a ripple through its life: origin, maxRadius and the time
\* of its creation.
RippleId(r) == [x |-> r.x, y |-> r.y, maxRadius |-> r.maxRadius, born |-> r.born]

RippleIds(rs) == [i \in 1..Len(rs) |-> RippleId(rs[i])]

\* s is t with some elements left out, the others in t's order.
RECURSIVE IsSubSeq(_, _)
IsSubSeq(s, t) ==
  IF s = <<>> THEN TRUE
  ELSE IF t = <<>> THEN FALSE
  ELSE IF Head(s) = Head(t) THEN IsSubSeq(Tail(s), Tail(t))
  ELSE IsSubSeq(s, Tail(t))

\* The list is in creation order, oldest first.
OldestFirst(rs) == \A i, j \in 1..Len(rs) : i < j => rs[i].born <= rs[j].born

\* C25: the ripple list is in creation order, oldest first.  An interaction
\* that changes it appends one ripple and, when the list was full, removes
\* its first (oldest) ripple and no other; a frame leaves the surviving
\* ripples in the order they had.
C25_OldestEvictedOrderKept ==
  [][driver = "EnergyGrid" /\ ripplesRef' # ripplesRef
       => /\ OldestFirst(ripplesRef')
          /\ IF FrameStep
               THEN IsSubSeq(RippleIds(ripplesRef'), RippleIds(ripplesRef))
               ELSE LET kept == IF Len(ripplesRef) = MaxRipples
                                  THEN Tail(ripplesRef) ELSE ripplesRef
                        new == ripplesRef'[Len(ripplesRef')]
                    IN  /\ ripplesRef' = Append(kept, new)
                        /\ new.born = now /\ new.life = 0]_vars

\* A frame dropped an expired ripple and stroked the survivors; since then
\* interactions on the full list evicted one of the survivors: fewer of them
\* are left than the frame stroked, all in front of the new ripples.
C25_Witness ==
  /\ driver = "EnergyGrid" /\ phase = "mounted"
  /\ drawn.expired >= 1
  /\ Len(ripplesRef) = MaxRipples
  /\ Cardinality({i \in 1..Len(ripplesRef) : ripplesRef[i].life > 0}) < drawn.ripples
  /\ ripplesRef[1].life > 0
  /\ ripplesRef[MaxRipples].life = 0

\* ---------------------------------------------------------------------- C26
\* The step is an interaction that created a ripple at one of the pointer
\* positions: one ripple more at the end of the list (or, the list being
\* full, in place of the oldest), its origin the position less the parallax
\* offset, its life (and so its radius) 0.
RippleCreatedAtPointer ==
  LET new == ripplesRef'[Len(ripplesRef')]
      kept == IF Len(ripplesRef) = MaxRipples THEN Tail(ripplesRef) ELSE ripplesRef
  IN  /\ ripplesRef' = Append(kept, new)
      /\ \E c \in GridPositions :
           /\ new.x = c[1] * PosScale - parallax.x
           /\ new.y = c[2] * PosScale - parallax.y
      /\ new.life = 0 /\ rippleRadius(new) = 0

\* C26: an interaction on an interactive EnergyGrid, reduced motion off,
\* appends exactly one ripple with origin (px - parallaxX, py - parallaxY),
\* radius 0 and life 0, and an animated frame covering d ms adds d to the
\* life of every ripple it keeps (100 after 100 ms), the radius and opacity
\* being those of the new life.
C26_RippleAgesOnePerMs ==
  [][driver = "EnergyGrid" /\ phase = "mounted"
       => /\ ~FrameStep /\ ripplesRef' # ripplesRef => RippleCreatedAtPointer
          /\ FrameStep /\ drawn'.mode = "animated"
               => \A j \in 1..Len(ripplesRef') :
                    \E i \in 1..Len(ripplesRef) :
                      /\ RippleId(ripplesRef'[j]) = RippleId(ripplesRef[i])
                      /\ ripplesRef'[j].life
                           = ripplesRef[i].life + (now - lastTimeRef) * 1000]_vars

\* What the code does: the ripple is created as claimed, and an animated
\* frame covering d ms adds d / 1000 to the life of every ripple it keeps.
RippleAgesOnePerSecond ==
  [][driver = "EnergyGrid" /\ phase = "mounted"
       => /\ ~FrameStep /\ ripplesRef' # ripplesRef => RippleCreatedAtPointer
          /\ FrameStep /\ drawn'.mode = "animated"
               => \A j \in 1..Len(ripplesRef') :
                    \E i \in 1..Len(ripplesRef) :
                      /\ RippleId(ripplesRef'[j]) = RippleId(ripplesRef[i])
                      /\ ripplesRef'[j].life
                           = ripplesRef[i].life + (now - lastTimeRef)]_vars

\* A ripple created off the centre under a non-zero parallax offset has been
\* aged by a frame.
RippleAges_Witness ==
  /\ driver = "EnergyGrid" /\ phase = "mounted"
  /\ drawn.mode = "animated"
  /\ \E i \in 1..Len(ripplesRef) :
       /\ ripplesRef[i].life > 0
       /\ ripplesRef[i].x # 50 * PosScale /\ ripplesRef[i].x # 100 * PosScale

\* ---------------------------------------------------------------------- C27
\* C27: after every animated frame of an EnergyGrid each ripple in the list
\* has 0 <= radius < maxRadius and 0 < opacity <= 0.6 (the opacity before its
\* rounding to thousandths), a radius not below and an opacity not above the
\* ones it had before the frame, and the frame stroked the ripples of this
\* list and no other: none whose life has reached maxRadius.
C27_RippleWithinBounds ==
  [][FrameStep /\ driver = "EnergyGrid" /\ drawn'.mode = "animated"
       => /\ \A j \in 1..Len(ripplesRef') :
               LET r == ripplesRef'[j]
               IN  /\ 0 <= rippleRadius(r) /\ rippleRadius(r) < r.maxRadius
                   /\ 0 < (r.maxRadius - r.life) * 600 /\ rippleOpacity(r) <= 600
                   /\ \E i \in 1..Len(ripplesRef) :
                        /\ RippleId(ripplesRef[i]) = RippleId(r)
                        /\ rippleRadius(ripplesRef[i]) <= rippleRadius(r)
                        /\ rippleOpacity(ripplesRef[i]) >= rippleOpacity(r)
          /\ drawn'.ripples = Len(ripplesRef')]_vars

\* A frame dropped a ripple whose life had reached maxRadius and stroked a
\* ripple that an earlier frame had aged already.
C27_Witness ==
  /\ driver = "EnergyGrid" /\ phase = "mounted"
  /\ drawn.mode = "animated" /\ drawn.expired >= 1
  /\ drawn.ripples = Len(ripplesRef)
  /\ \E i \in 1..Len(ripplesRef) : rippleRadius(ripplesRef[i]) > IdleMs

\* ---------------------------------------------------------------------- C28
\* C28: after every update step of an EnergyGrid (an animated frame) each
\* grid point keeps its rest position and phase and is displayed at the rest
\* position plus the displacement of the accumulated time, its phase and the
\* shimmer speed, wherever it was displayed before; points of equal phase
\* have equal displacements.
C28_DisplayedFromRestAndTime ==
  [][FrameStep /\ driver = "EnergyGrid" /\ canvasRef /\ ~isReducedMotionRef
       => LET old == gridPointsRef.points
              new == gridPointsRef'.points
              speed == ShimmerSpeed[props.intensity]
          IN  /\ Len(new) = Len(old)
              /\ \A k \in 1..Len(new) :
                   /\ new[k].originalX = old[k].originalX
                   /\ new[k].originalY = old[k].originalY
                   /\ new[k].phase = old[k].phase
                   /\ new[k].x = new[k].originalX
                                   + wave1(timeRef', new[k].phase, speed)
                                   + wave2(timeRef', new[k].phase, speed)
                   /\ new[k].y = new[k].originalY
                                   + (wave2(timeRef', new[k].phase, speed) * 5) \div 10
              /\ \A j, k \in 1..Len(new) :
                   new[j].phase = new[k].phase
                     => /\ new[j].x - new[j].originalX = new[k].x - new[k].originalX
                        /\ new[j].y - new[j].originalY = new[k].y - new[k].originalY]_vars

\* Two animated frames in a row have displaced the lattice: a point is off
\* its rest position, where the frame before had put it elsewhere, and
\* another point of the same phase has the same displacement.
C28_Witness ==
  /\ driver = "EnergyGrid" /\ phase = "mounted"
  /\ drawn.mode = "animated" /\ drawn.prev = "animated"
  /\ gridPointsRef.at = timeRef /\ timeRef = 2 * FrameMs
  /\ \E j, k \in 1..Len(gridPointsRef.points) :
       LET a == gridPointsRef.points[j]
           b == gridPointsRef.points[k]
       IN  /\ j # k /\ a.phase = b.phase
           /\ a.x # a.originalX /\ a.y # a.originalY
           /\ a.x # a.originalX + wave1(FrameMs, a.phase, ShimmerSpeed[props.intensity])
                                + wave2(FrameMs, a.phase, ShimmerSpeed[props.intensity])
           /\ a.x - a.originalX = b.x - b.originalX

\* ---------------------------------------------------------------------- C29
\* The pointer callbacks pending on the host.
PendingSamples == {e \in rafQueue : e.cb = "pointer"}

\* The step accepts a pointer sample: the handler schedules its callback.
SampleStep == rafRef' # rafRef /\ rafRef' # 0

\* The offset the driver's tracker exposes.
TrackerOffset ==
  IF HasPointer THEN <<pointer.x, pointer.y>> ELSE <<parallax.x, parallax.y>>

\* C29: a tracker accepts a pointer sample only when throttleMs (16 ms) or
\* more have passed since the sample it accepted last, so at most one per
\* window; the handler leaves the offset as it is and at most one sample
\* waits for its frame; the offset takes a sample's value only in the step
\* that runs the sample's animation-frame callback.
C29_ThrottledAndFrameApplied ==
  [][/\ SampleStep
          => /\ DateNow - lastUpdateRef >= ThrottleMs
             /\ lastUpdateRef' = DateNow
             /\ TrackerOffset' = TrackerOffset
             /\ Cardinality(PendingSamples') = 1
     /\ (TrackerOffset' # TrackerOffset /\ ~PointerEndStep /\ ~MountStep)
          => \E e \in PendingSamples : e.at < now /\ e \notin rafQueue'
     /\ lastUpdateRef' # lastUpdateRef => SampleStep]_vars

\* A first sample was applied by its frame, and a second one, accepted one
\* throttle window after the first, waits for its frame.
C29_Witness ==
  /\ HasPointer /\ phase = "mounted"
  /\ pointer.x # 0
  /\ lastUpdateRef >= Epoch + ThrottleMs
  /\ Cardinality(PendingSamples) = 1

\* ---------------------------------------------------------------------- C30
\* C30: the last frame of a HomeFX that reached rendering ran the blob, the
\* grid and the beam pass in this order, the three with the accumulated time
\* and the reduced-motion flag of that frame, and its beam pass drew exactly
\* if the flag was false.
C30_ThreePassesInOrder ==
  driver = "HomeFX" /\ drawn.mode \in {"static", "animated"}
    => /\ Len(drawn.passes) = 3
       /\ [i \in 1..3 |-> drawn.passes[i].name] = <<"blob", "grid", "beam">>
       /\ \A i \in 1..3 :
            /\ drawn.passes[i].time = timeRef
            /\ drawn.passes[i].reduced = (drawn.mode = "static")
       /\ drawn.passes[3].drew <=> ~drawn.passes[3].reduced
       /\ drawn.beam = drawn.passes[3].drew

\* An animated frame, beam drawn, at a positive accumulated time, after a
\* static frame.
C30_Witness ==
  /\ driver = "HomeFX" /\ phase = "mounted"
  /\ drawn.mode = "animated" /\ drawn.prev = "static"
  /\ timeRef > 0
  /\ Len(drawn.passes) = 3 /\ drawn.passes[3].drew

\* ---------------------------------------------------------------------- C31
\* The grid points of the grid pass of HomeFX on the current surface.
HomeFXGridPoints ==
  LET cell == GridSize[props.intensity]
  IN  {<<col * cell * PosScale, row * cell * PosScale>> :
         col \in 0..(Ceil(rect[1], cell) + 1), row \in 0..(Ceil(rect[2], cell) + 1)}

\* The last frame drew the grid point p highlighted.
Highlighted(p) ==
  \E k \in 1..Len(drawn.circles) :
    drawn.circles[k].x = p[1] /\ drawn.circles[k].y = p[2]

\* C31: when a frame of an interactive HomeFX runs its highlight pass
\* (pointer active), it draws a grid point highlighted exactly if the
\* point's distance to the position of the pointer is below the falloff
\* radius of 200 px, with an influence of 1 - d / 200.
C31_HighlightNearPointer ==
  [][FrameStep /\ driver = "HomeFX" /\ drawn'.highlight
       => \A c \in HighlightPositions :
            \A p \in HomeFXGridPoints :
              Highlighted(p)'
                <=> Dist2(p, <<c[1] * PosScale, c[2] * PosScale>>)
                      < (FalloffRadius * 10) * (FalloffRadius * 10)]_vars

\* What the pass does: the distance is taken to the centre of the surface
\* displaced by the tracker's clamped offset, not to the pointer.
HighlightNearOffsetCentre ==
  [][FrameStep /\ driver = "HomeFX" /\ drawn'.highlight
       => LET m == <<(rect[1] * PosScale) \div 2 + pointer.x,
                     (rect[2] * PosScale) \div 2 + pointer.y>>
          IN  /\ \A p \in HomeFXGridPoints :
                   Highlighted(p)'
                     <=> Dist2(p, m) < (FalloffRadius * 10) * (FalloffRadius * 10)
              /\ \A k \in 1..Len(drawn'.circles) :
                   LET c == drawn'.circles[k]
                   IN  /\ c.influence
                            = 1000 - (Sqrt(Dist2(<<c.x, c.y>>, m)) * 1000)
                                       \div (FalloffRadius * 10)
                       /\ c.alpha = GridOpacity[props.intensity]
                                      + (c.influence * 3) \div 10
                       /\ c.size = 1000 + c.influence * 2]_vars

\* A highlight pass on the large surface that lit some grid points and left
\* others dark.
Highlight_Witness ==
  /\ driver = "HomeFX" /\ drawn.highlight /\ rect \in HighlightSizes
  /\ \E p, q \in HomeFXGridPoints : Highlighted(p) /\ ~Highlighted(q)

\* ---------------------------------------------------------------------- C32
\* C32: once the component and with it its pointer tracker is unmounted, no
\* pointer-update callback of the tracker is pending and none of the
\* tracker's listeners is registered, whatever the state it was unmounted in.
C32_TrackerGoneAfterUnmount ==
  phase = "torndown"
    => /\ PendingSamples = {}
       /\ parallaxListeners = {}
       /\ pointerListeners = {}

\* A useParallax unmounted under reduced motion, its listener effect having
\* registered nothing, after it had accepted a sample whose callback never
\* ran.
C32_Witness ==
  /\ phase = "torndown" /\ HasParallax /\ props.interactive
  /\ parallax.isReducedMotion /\ capturedFlag
  /\ rafRef # 0 /\ parallax.x = 0 /\ parallax.y = 0

\* ---------------------------------------------------------------------- C33
\* The frame callbacks of the driver that are scheduled and have not run.
PendingFrames == {e \in rafQueue : e.cb = "animate"}

\* C33: a driver never has two frame callbacks pending, and the one that is
\* pending is the one animationRef names.
C33_OneFramePending ==
  /\ Cardinality(PendingFrames) <= 1
  /\ \A e \in PendingFrames : e.id = animationRef

\* An EnergyGrid whose effect ran again because the pointer offset changed,
\* after the document was hidden and shown again: one frame pending.
C33_Witness ==
  /\ phase = "mounted" /\ HasParallax /\ ~hidden /\ observed = "visible"
  /\ parallax.x # 0 /\ Cardinality(PendingFrames) = 1

\* ---------------------------------------------------------------------- C34
\* What the claim calls the lattice: each point's rest position, phase and
\* intensity weight, in the order of the list.
Lattice(g) ==
  [k \in 1..Len(g.points) |->
     [originalX |-> g.points[k].originalX, originalY |-> g.points[k].originalY,
      phase |-> g.points[k].phase, intensity |-> g.points[k].intensity]]

\* The offset of useParallax changes.
OffsetStep == parallax'.x # parallax.x \/ parallax'.y # parallax.y

\* C34: a change of the parallax offset alone, the surface's size and the
\* mount being the same, leaves the lattice of EnergyGrid as it was: the same
\* points with the same rest positions, phases and intensity weights.
C34_OffsetKeepsLattice ==
  [][OffsetStep /\ driver = "EnergyGrid" /\ phase = "mounted" /\ phase' = "mounted"
       /\ rect' = rect
       => Lattice(gridPointsRef') = Lattice(gridPointsRef)]_vars

\* What the code does: the offset is a dependency of the effect, which runs
\* again and builds the lattice anew, at the same rest positions and with
\* fresh random phases and intensity weights.
OffsetRebuildsLattice ==
  [][OffsetStep /\ driver = "EnergyGrid" /\ phase = "mounted" /\ canvasRef
       => /\ \E seed \in LatticeSeeds : gridPointsRef' = initializeGrid(seed)
          /\ Len(gridPointsRef'.points) = Len(gridPointsRef.points)
          /\ \A k \in 1..Len(gridPointsRef.points) :
               /\ gridPointsRef'.points[k].originalX = gridPointsRef.points[k].originalX
               /\ gridPointsRef'.points[k].originalY = gridPointsRef.points[k].originalY]_vars

\* A lattice built from the second sequence of draws under a nonzero offset.
OffsetRebuild_Witness ==
  /\ driver = "EnergyGrid" /\ phase = "mounted" /\ parallax.x # 0
  /\ gridPointsRef.seed = 2 /\ Len(gridPointsRef.points) > 0

\* ---------------------------------------------------------------------- C35
\* The frame step adds at most ms milliseconds to timeRef and to the life of
\* every ripple it keeps (both in thousandths of a second).
AdvancesAtMost(ms) ==
  /\ timeRef' - timeRef <= ms
  /\ \A j \in 1..Len(ripplesRef') :
       \E i \in 1..Len(ripplesRef) :
         /\ RippleId(ripplesRef[i]) = RippleId(ripplesRef'[j])
         /\ ripplesRef'[j].life - ripplesRef[i].life <= ms

\* C35: a frame adds to the accumulated simulation time no more than the time
\* since the driver's previous frame callback, and the first frame after the
\* mount no more than the time since the mount.
C35_AdvanceWithinElapsed ==
  [][FrameStep /\ HasTime
       => /\ drawn.at >= 0 => AdvancesAtMost(now - drawn.at)
          /\ drawn.at < 0 => \A e \in PendingFrames : AdvancesAtMost(now - e.at)]_vars

\* What animate does: an animated frame adds currentTime - lastTimeRef, a
\* frame under reduced motion nothing.  lastTimeRef is the timestamp of the
\* previous frame callback, and 0, the page's time origin, before the first.
AdvanceIsTimestampDelta ==
  [][FrameStep /\ HasTime
       => /\ timeRef' - timeRef = IF isReducedMotionRef THEN 0 ELSE now - lastTimeRef
          /\ lastTimeRef = IF drawn.at >= 0 THEN drawn.at ELSE 0
          /\ drawn.at >= 0 => AdvancesAtMost(now - drawn.at)
          /\ AdvancesAtMost(now)]_vars

\* After a single animated frame the accumulated time is the whole time since
\* the time origin, with a ripple that has aged as much.
AdvanceIsTimestampDelta_Witness ==
  /\ HasTime /\ phase = "mounted" /\ drawn.prev = "none" /\ drawn.mode = "animated"
  /\ timeRef = now /\ now >= 2 * FrameMs
  /\ driver = "EnergyGrid" => (Len(ripplesRef) > 0 /\ ripplesRef[1].life = now)

\* ---------------------------------------------------------------------- C36
\* C36: once a pointer-leave has been delivered to useRafPointer, and no
\* pointer-move after it, isActive is false, whether or not a sample accepted
\* before the leave was still waiting for its frame.
C36_InactiveAfterLeave ==
  (HasPointer /\ phase = "mounted" /\ ends = 1) => ~pointer.isActive

\* What the code does: handlePointerLeave leaves the pending callback in the
\* queue; after the leave isActive changes only when that callback runs, and
\* it becomes true.
LeaveKeepsPendingSample ==
  [][(HasPointer /\ phase = "mounted")
       => /\ PointerEndStep => PendingSamples' = PendingSamples
          /\ (ends = 1 /\ pointer'.isActive # pointer.isActive)
               => /\ pointer'.isActive
                  /\ \E e \in PendingSamples : e \notin rafQueue' /\ e.id = rafRef]_vars

\* The tracker of HomeFX active after the pointer has left.
LeaveKeepsPendingSample_Witness ==
  HasPointer /\ phase = "mounted" /\ ends = 1 /\ pointer.isActive /\ pointer.x # 0

\* ---------------------------------------------------------------------- C37
\* C37: once a pointer end has been delivered to useParallax, and no move
\* after it, x and y are (0, 0), whether or not a sample accepted before the
\* reset was still waiting for its frame.
C37_ZeroAfterPointerEnd ==
  (HasParallax /\ phase = "mounted" /\ ends = 1) => (parallax.x = 0 /\ parallax.y = 0)

\* What the code does: resetPosition leaves the pending callback in the
\* queue; after the pointer end the offset changes only when that callback
\* runs, to the offset of the sample it carries.
ResetKeepsPendingSample ==
  [][(HasParallax /\ phase = "mounted")
       => /\ PointerEndStep => PendingSamples' = PendingSamples
          /\ (ends = 1 /\ <<parallax'.x, parallax'.y>> # <<parallax.x, parallax.y>>)
               => \E e \in PendingSamples :
                    /\ e \notin rafQueue' /\ e.id = rafRef
                    /\ parallax'.x = useParallax_offset(e.clientX, rect[1], props)
                    /\ parallax'.y = useParallax_offset(e.clientY, rect[2], props)]_vars

\* The offset of useParallax not (0, 0) after the mouse has left.
ResetKeepsPendingSample_Witness ==
  HasParallax /\ phase = "mounted" /\ ends = 1 /\ parallax.x # 0 /\ parallax.y # 0

\* ---------------------------------------------------------------------- C38
\* C38: AutoMatchStatusLive has at most one interval timer active at any
\* time, and none once it is unmounted.
C38_OneLiveTimer ==
  /\ Cardinality(timers) <= 1
  /\ livePhase = "torndown" => timers = {}

\* What the code guarantees: the timer intervalRef holds is active, it is the
\* only one stopLiveUpdates can clear, and an unmounted component holds none.
\* A step adds to the active timers intervalRef does not hold only when the
\* visibility handler, the document becoming visible, starts a timer over a
\* running one; no step removes such a timer.
LiveTimerTracked ==
  /\ intervalRef # 0 => intervalRef \in timers
  /\ livePhase = "torndown" => intervalRef = 0
  /\ livePhase = "uninit" => timers = {}

LiveTimerLeaksOnShow ==
  [][\/ (timers' \ {intervalRef'}) = (timers \ {intervalRef})
     \/ /\ hidden /\ ~hidden' /\ intervalRef # 0 /\ ~isReducedMotion
        /\ timers' \ {intervalRef'} = timers]_vars

\* A timer intervalRef no longer holds is active after the unmount.
LiveTimerLeak_Witness ==
  livePhase = "torndown" /\ timers # {} /\ intervalRef = 0 /\ dataIndexRef > InitialPoints
====
